---- MODULE Spec2Model ----
(***************************************************************************)
(* Verification model of the Orcfax explorer-index service.                *)
(*                                                                         *)
(* Spec        one network's life cycle: boot (getNetworks), the backfill  *)
(*             (populateIndex), and the cron tick (syncFeeds, policy        *)
(*             tracking, syncFactStatements), against a Kupo chain index    *)
(*             that advances, rotates its policy pointer and rolls back,    *)
(*             and a record store whose calls may fail.                     *)
(* SpecReorg   Spec started against a longer chain, so that a rollback     *)
(*             followed by new blocks fits the bound on chain changes.     *)
(* SpecCron    the CronJob trigger and the onTick invocations it starts.    *)
(* SpecArchive the p-limit worker pool of indexArchives.                    *)
(* SpecSlots   slotToDate and dateToSlot on bounded networks and slots.     *)
(* SpecParse   one syncFactStatements call on a response whose              *)
(*             transactions have several matched outputs.                   *)
(* SpecIndexer runs of the archive indexer: processFact calls sharing the   *)
(*             node and source caches, and the collections they write.      *)
(* SpecNetworks the networks a process works on: getNetworks over stored    *)
(*             records and seeds, the backfill loop of index.ts and the     *)
(*             loop of onTick.                                              *)
(* SpecFeeds   the feed catalogue: syncFeeds for each network of a tick,    *)
(*             with the manifest cache of the scheduler.                    *)
(* SpecBackfill the first-time population of the index: the windows of      *)
(*             populateIndex over slots counted as numbers.                 *)
(* SpecPopulate the first policies of a network: populatePolicyIDs over     *)
(*             lists of pointer matches.                                    *)
(***************************************************************************)
EXTENDS Integers, Sequences, FiniteSets, TLC

(***************************************************************************)
(* Bounds of the model.                                                    *)
(***************************************************************************)
MaxEvents == 3
MaxFaults == 1
MaxPolicies == 3

Urns == {"u1", "u2"}
PolicyIds == {"P1", "P2"}

(* network.slot_length (ms per slot) and the day of slotAfterTimePeriod.   *)
SlotLength == 1000
DayMs == 86400000

VARIABLES
  \* ---- the Kupo chain index (environment)
  kChain,      \* kChain[s] = fork in which the block of slot s was made; tip = Len
  kFork,       \* number of rollbacks so far
  kEvents,     \* number of changes of the chain so far
  kMatches,    \* fact-statement matches on the current chain
  kPointer,    \* pointer matches, oldest first: <<[pid, slot], ...>>
  \* ---- the record store
  sExists,     \* the network record exists
  sCkpt,       \* networks.last_checkpoint_slot
  sHash,       \* networks.last_block_hash
  sPolicies,   \* policies collection, in creation order
  sFacts,      \* facts collection, in creation order
  \* ---- the process: the cached Network object and the locals of the run
  cCkpt, cHash, cPolicies,
  pc, call, req, resp, pending, rolledBack,
  latestPolicy, bf, err, successfulCount, skippedCount,
  fetched,     \* how the run's last fetchMatchesFromKupo ended
  faults,      \* failed calls (store, Kupo, manifest) so far
  \* ---- SpecCron
  tickPc, fired,
  \* ---- SpecArchive
  aFacts, aPc, activeCount, aQueue,
  \* ---- SpecSlots
  tbNet,       \* the network record given to the conversions
  tbSlot,      \* the slot given to slotToDate
  tbDate,      \* the Date it returned
  tbBack,      \* the slot dateToSlot returned for that Date
  tbPc,
  \* ---- SpecParse
  pResp,       \* the matches of the Kupo response, in the order of the response
  pMeta,       \* per transaction: its label-1226 list begins with the ToS element
  pGroups,     \* the transactions parseAndIndexMatches has still to take
  pFacts,      \* facts collection
  pCkpt,       \* networks.last_checkpoint_slot: 0 before the sync, 1 the response's
  pErr,        \* the error that left syncFactStatements
  pPc,
  \* ---- SpecIndexer
  ixArchive,     \* per fact: what its archive on Arweave holds
  ixFacts,       \* facts collection: the archive fields of each record
  ixNodes,       \* nodes collection, in creation order (id = place)
  ixSources,     \* sources collection, in creation order (id = place)
  ixNodesCache,  \* cachedNodes of the run: ids
  ixSourcesCache, \* cachedSources of the run: ids
  ixW,           \* per fact: its processFact call in the run
  ixRun,         \* runs started
  ixOutcome,     \* how the last indexArchives call ended
  ixFaults,      \* failed fetches and store calls so far
  \* ---- SpecNetworks
  nwStored,      \* networks collection, in creation order (id = place)
  nwSeedEnabled, \* is_enabled of each entry of NetworkSeeds
  nwCached,      \* the Network objects getNetworks returned
  nwPc,
  nwNet,         \* place in the loop over the networks
  nwStep,        \* place in the try block of onTick
  nwTicks,       \* ticks started
  nwPassed,      \* the calls made so far: [component, network]
  \* ---- SpecFeeds
  fdManifest,    \* per network: the manifest its active_feeds_url serves
  fdFeeds,       \* feeds collection, in creation order (id = place)
  fdAssets,      \* assets collection, in creation order (id = place)
  cachedFeeds,   \* let cachedFeeds of initIndexSyncCronJob: <<>> or <<manifest>>
  fdFetched,     \* per network: the manifest syncFeeds last fetched for it
  fdPc,
  fdNet,         \* place in the loop of onTick over the networks
  fdStored,      \* storedFeeds of the running syncFeeds
  fdActive,      \* activeFeeds of the running syncFeeds
  fdI,           \* place in the loop over activeFeeds.feeds
  fdProcessed,   \* processedFeedIds
  fdOutcome,     \* how the last syncFeeds left, and for which network
  fdTicks,       \* ticks started
  fdPublishes,   \* changes of a manifest so far
  fdFaults,      \* failed fetches and store calls so far
  \* ---- SpecBackfill
  pbPolicies,    \* network.policies of the Network given to populateIndex
  pbNow,         \* dateToSlot(new Date(), network) at this moment
  pbAdvances,    \* steps of the clock so far
  pbPc,
  pbIdx,         \* place in the loop over the policies
  pbCur,         \* currentSlot
  pbLatest,      \* latestSlot
  pbEnd,         \* queryEndSlot
  pbLast,        \* lastBlockHash and lastCheckpointSlot: <<>> undefined
  pbResp,        \* the last response fetchMatchesFromKupo gave: <<>> none
  pbWindows,     \* the requests made so far
  pbStored,      \* last_checkpoint_slot and last_block_hash of the record
  pbFaults,      \* failed fetches and store calls so far
  \* ---- SpecPopulate
  ppMatches,     \* the pointer matches Kupo gives, oldest first
  ppIgnore,      \* seed.ignore_policies
  ppStore,       \* policies collection, in creation order (id = place)
  ppFiltered,    \* filteredPolicies
  ppPending,     \* the createPolicy calls that have not answered yet
  ppCreated,     \* per call: the id of the record it created, 0 for none
  ppRejected,    \* a createPolicy call has thrown
  ppPc,
  ppResult,      \* what populatePolicyIDs returned
  ppFaults       \* failed fetches and store calls so far

chainVars == <<kChain, kFork, kEvents, kMatches, kPointer>>
storeVars == <<sExists, sCkpt, sHash, sPolicies, sFacts>>
cacheVars == <<cCkpt, cHash, cPolicies>>
localVars == <<call, req, resp, pending, rolledBack, latestPolicy, bf, err,
               successfulCount, skippedCount>>
syncVars == <<chainVars, storeVars, cacheVars, pc, localVars, fetched, faults>>
cronVars == <<tickPc, fired>>
archVars == <<aFacts, aPc, activeCount, aQueue>>
tbVars == <<tbNet, tbSlot, tbDate, tbBack, tbPc>>
parseVars == <<pResp, pMeta, pGroups, pFacts, pCkpt, pErr, pPc>>
ixVars == <<ixArchive, ixFacts, ixNodes, ixSources, ixNodesCache, ixSourcesCache,
            ixW, ixRun, ixOutcome, ixFaults>>
nwVars == <<nwStored, nwSeedEnabled, nwCached, nwPc, nwNet, nwStep, nwTicks, nwPassed>>
fdVars == <<fdManifest, fdFeeds, fdAssets, cachedFeeds, fdFetched, fdPc, fdNet, fdStored,
            fdActive, fdI, fdProcessed, fdOutcome, fdTicks, fdPublishes, fdFaults>>
pbVars == <<pbPolicies, pbNow, pbAdvances, pbPc, pbIdx, pbCur, pbLatest, pbEnd, pbLast,
            pbResp, pbWindows, pbStored, pbFaults>>
ppVars == <<ppMatches, ppIgnore, ppStore, ppFiltered, ppPending, ppCreated, ppRejected,
            ppPc, ppResult, ppFaults>>
vars == <<syncVars, cronVars, archVars, tbVars, parseVars, ixVars, nwVars, fdVars, pbVars,
          ppVars>>

(***************************************************************************)
(* Values.                                                                 *)
(***************************************************************************)
NoHash == <<0, 0>>                       \* the empty string ''
NoResp == [ckpt |-> 0, hash |-> NoHash, txs |-> 0]  \* no response held
NoReq == [lastHash |-> NoHash, lastCkpt |-> 0, after |-> 0, before |-> 0, pol |-> <<>>]
NoBf == [idx |-> 0, cur |-> 0, latest |-> 0, end |-> 0, ckpt |-> 0, hash |-> NoHash]

Tip == Len(kChain)
Etag == <<Tip, kChain[Tip]>>             \* header hash of the tip block

Range(s) == {s[i] : i \in 1..Len(s)}

(***************************************************************************)
(* Time base.                                                              *)
(***************************************************************************)
\* the case 'week' is taken for 'day'
slotAfterTimePeriod_Week(slot) == slot + ((7 * DayMs) \div SlotLength)

slotAfterTimePeriod(slot) == slot + (DayMs \div SlotLength)

(***************************************************************************)
(* Array.prototype.sort on policies (stable insertion by the comparator).  *)
(***************************************************************************)
RECURSIVE InsertBy(_, _, _)
InsertBy(p, s, desc) ==
  IF s = <<>> THEN <<p>>
  ELSE IF (IF desc THEN p.starting_slot > Head(s).starting_slot
                   ELSE p.starting_slot < Head(s).starting_slot)
       THEN <<p>> \o s
       ELSE <<Head(s)>> \o InsertBy(p, Tail(s), desc)

RECURSIVE SortBy(_, _)
SortBy(s, desc) ==
  IF s = <<>> THEN <<>>
  ELSE InsertBy(s[Len(s)], SortBy(SubSeq(s, 1, Len(s) - 1), desc), desc)

(***************************************************************************)
(* The record store (PocketBase collections).                              *)
(***************************************************************************)
\* policies_via_network of the network record, with the store's ids
StoredPolicies ==
  [i \in 1..Len(sPolicies) |->
     [id |-> i, policy_id |-> sPolicies[i].policy_id,
      starting_slot |-> sPolicies[i].starting_slot]]

\* the facts collection's unique index on (network, fact_urn)
DbNotUnique(facts, fact) == \E i \in 1..Len(facts) : facts[i].fact_urn = fact.fact_urn

RECURSIVE Filter(_, _)
Filter(s, keep) ==
  IF s = <<>> THEN <<>>
  ELSE IF Head(s) \in keep THEN <<Head(s)>> \o Filter(Tail(s), keep)
       ELSE Filter(Tail(s), keep)

\* facts.getFirstListItem(network, sort: '-slot'): the candidates
LastIndexedFacts ==
  {f \in Range(sFacts) : \A g \in Range(sFacts) : g.slot <= f.slot}

(***************************************************************************)
(* The Kupo chain index.                                                   *)
(***************************************************************************)
\* GET /matches/{policy}.*?created_after=..&created_before=..&order=oldest_first
RECURSIVE OldestFirst(_)
OldestFirst(S) ==
  IF S = {} THEN <<>>
  ELSE LET m == CHOOSE x \in S : \A y \in S : x.slot <= y.slot
       IN  <<m>> \o OldestFirst(S \ {m})

KupoMatches(policy_id, after, before) ==
  OldestFirst({m \in kMatches :
                 /\ m.pol = policy_id
                 /\ m.slot >= after
                 /\ (before = 0 \/ m.slot <= before)})

\* the chain grows by one block, which may carry a fact statement of the
\* policy the pointer names
ChainAdvance ==
  /\ kChain' = Append(kChain, kFork)
  /\ \/ UNCHANGED kMatches
     \/ \E u \in Urns :
          /\ \A m \in kMatches : m.urn # u
          /\ kMatches' = kMatches \cup
                {[urn |-> u, slot |-> Tip + 1, fork |-> kFork,
                  pol |-> kPointer[Len(kPointer)].policy_id]}
  /\ UNCHANGED <<kFork, kPointer>>

\* the pointer token moves to a datum naming another policy
PolicyRotate ==
  /\ Tip > kPointer[Len(kPointer)].starting_slot
  /\ \E p \in PolicyIds :
       /\ \A i \in 1..Len(kPointer) : kPointer[i].policy_id # p
       /\ kPointer' = Append(kPointer, [policy_id |-> p, starting_slot |-> Tip])
  /\ UNCHANGED <<kChain, kFork, kMatches>>

\* the chain is reorganised: the blocks after slot t are abandoned
ChainRollback ==
  /\ \E t \in 1..(Tip - 1) :
       /\ kChain' = SubSeq(kChain, 1, t)
       /\ kMatches' = {m \in kMatches : m.slot <= t}
       /\ kPointer' = Filter(kPointer, {q \in Range(kPointer) : q.starting_slot <= t})
  /\ kFork' = kFork + 1

\* the chain is read at boot, at the backfill's loop head, by the policy
\* tracker and by the matches fetch: a change of the chain at any other
\* moment is the same change seen at the next of these
Env ==
  /\ pc \in {"boot", "idle", "fetch"}
  /\ kEvents < MaxEvents
  /\ kEvents' = kEvents + 1
  /\ \/ ChainAdvance
     \/ PolicyRotate
     \/ ChainRollback
  /\ UNCHANGED <<storeVars, cacheVars, pc, localVars, fetched, faults>>

(***************************************************************************)
(* Boot: index.ts and getNetworks / populateNetwork / populatePolicyIDs.   *)
(***************************************************************************)
IgnorePolicies == {}

\* policies.filter((p, i, self) => i === self.findIndex(q => q.policy_id === p.policy_id))
RECURSIVE UniquePolicies(_, _)
UniquePolicies(s, seen) ==
  IF s = <<>> THEN <<>>
  ELSE IF Head(s).policy_id \in seen THEN UniquePolicies(Tail(s), seen)
       ELSE <<Head(s)>> \o UniquePolicies(Tail(s), seen \cup {Head(s).policy_id})

populatePolicyIDs ==
  Filter(UniquePolicies(kPointer, {}),
         {q \in Range(kPointer) : q.policy_id \notin IgnorePolicies})

\* getAllNetworks: .sort((a, b) => b.starting_slot - a.starting_slot)
getAllNetworks == SortBy(StoredPolicies, TRUE)

\* a call to the store, to Kupo or to the feed manifest fails: at most
\* MaxFaults calls fail in a behaviour
Fault(failed) ==
  IF failed THEN faults < MaxFaults /\ faults' = faults + 1
  ELSE UNCHANGED faults

ClearLocals ==
  /\ call' = "none"
  /\ req' = NoReq
  /\ resp' = NoResp
  /\ pending' = <<>>
  /\ rolledBack' = FALSE
  /\ latestPolicy' = <<>>
  /\ bf' = NoBf
  /\ successfulCount' = 0
  /\ skippedCount' = 0

\* the run ends: normally (e = "none") or in the catch of onTick, which logs
\* what threw
Finish(e) ==
  /\ pc' = "done"
  /\ err' = e
  /\ ClearLocals

\* an exception reaches the catch of index.ts: the cron job is never set up
Halt(e) ==
  /\ pc' = "halt"
  /\ err' = e
  /\ ClearLocals

Boot ==
  /\ pc = "boot"
  /\ \E dbOk \in BOOLEAN :
       /\ Fault(~dbOk)
       /\ IF sExists
          THEN /\ cPolicies' = getAllNetworks
               /\ cCkpt' = sCkpt
               /\ cHash' = sHash
               \* isIndexEmpty answers false when its query fails
               /\ pc' = IF dbOk /\ sFacts = <<>> THEN "bfStart" ELSE "idle"
               /\ UNCHANGED storeVars
          ELSE IF dbOk
          THEN \* createNetwork(seed), then the policies of the pointer matches
               /\ sExists' = TRUE
               /\ sCkpt' = 0
               /\ sHash' = NoHash
               /\ sPolicies' = populatePolicyIDs
               /\ cPolicies' = [i \in 1..Len(sPolicies') |->
                                  [id |-> i, policy_id |-> sPolicies'[i].policy_id,
                                   starting_slot |-> sPolicies'[i].starting_slot]]
               /\ cCkpt' = 0
               /\ cHash' = NoHash
               /\ pc' = "bfStart"
               /\ UNCHANGED sFacts
          ELSE \* createNetwork failed: no network to work on
               /\ pc' = "halt"
               /\ UNCHANGED <<storeVars, cacheVars>>
  /\ UNCHANGED <<chainVars, localVars, fetched>>

\* the process is stopped and started again; the store is kept
Restart ==
  /\ pc \in {"idle", "halt"}
  /\ pc' = "boot"
  /\ cCkpt' = 0
  /\ cHash' = NoHash
  /\ cPolicies' = <<>>
  /\ err' = "none"
  /\ fetched' = "none"
  /\ UNCHANGED <<chainVars, storeVars, call, req, resp, pending, rolledBack,
                 latestPolicy, bf, successfulCount, skippedCount, faults>>

(***************************************************************************)
(* populateIndex.                                                          *)
(***************************************************************************)
BfStart ==
  /\ pc = "bfStart"
  /\ \E feedsOk \in BOOLEAN :
       /\ Fault(~feedsOk)
       /\ IF ~feedsOk
          THEN /\ Halt("feeds")
               /\ UNCHANGED cPolicies
          ELSE /\ cPolicies' = SortBy(cPolicies, FALSE)
               /\ bf' = [NoBf EXCEPT !.idx = 1, !.latest = Tip,
                           !.cur = IF cPolicies = <<>> THEN 0
                                   ELSE cPolicies'[1].starting_slot]
               /\ pc' = "bfLoop"
               /\ UNCHANGED <<call, req, resp, pending, rolledBack, latestPolicy,
                              err, successfulCount, skippedCount>>
  /\ UNCHANGED <<chainVars, storeVars, cCkpt, cHash, fetched>>

BfLoop ==
  /\ pc = "bfLoop"
  /\ IF bf.idx > Len(cPolicies)
     THEN /\ pc' = "bfCommit"
          /\ UNCHANGED <<bf, req, call>>
     ELSE IF bf.cur < bf.latest
     THEN LET nextSlot == slotAfterTimePeriod(bf.cur)
              queryEndSlot == IF nextSlot < bf.latest THEN nextSlot ELSE bf.latest
          IN  /\ req' = [lastHash |-> NoHash, lastCkpt |-> 0, after |-> bf.cur,
                         before |-> queryEndSlot, pol |-> <<cPolicies[bf.idx]>>]
              /\ bf' = [bf EXCEPT !.end = queryEndSlot]
              /\ call' = "backfill"
              /\ pc' = "fetch"
     ELSE \* next policy: latestSlot is read again, currentSlot restarts at the origin
          /\ bf' = [bf EXCEPT !.idx = bf.idx + 1, !.latest = Tip,
                      !.cur = cPolicies[1].starting_slot]
          /\ pc' = "bfLoop"
          /\ UNCHANGED <<req, call>>
  /\ UNCHANGED <<chainVars, storeVars, cacheVars, resp, pending, rolledBack,
                 latestPolicy, err, successfulCount, skippedCount, fetched, faults>>

\* updateNetwork({id, last_checkpoint_slot, last_block_hash}) swallows a failure;
\* undefined values (no window was fetched) are not sent
BfCommit ==
  /\ pc = "bfCommit"
  /\ \E dbOk \in BOOLEAN :
       /\ Fault(~dbOk)
       /\ IF dbOk /\ bf.ckpt # 0
          THEN sCkpt' = bf.ckpt /\ sHash' = bf.hash
          ELSE UNCHANGED <<sCkpt, sHash>>
  /\ Finish("none")
  /\ UNCHANGED <<chainVars, sExists, sPolicies, sFacts, cacheVars, fetched>>

(***************************************************************************)
(* fetchMatchesFromKupo, parseAndIndexMatches, indexFactStatements,        *)
(* syncFactStatements.                                                     *)
(***************************************************************************)
\* deleteFactsOlderThanSlot: the facts with slot > `slot` are deleted one
\* after another; the first failing call ends the loop (the error is logged),
\* so `n` of them are gone
RECURSIVE deleteFactsOlderThanSlot(_, _, _)
deleteFactsOlderThanSlot(facts, slot, n) ==
  IF facts = <<>> THEN <<>>
  ELSE IF Head(facts).slot > slot /\ n > 0
       THEN deleteFactsOlderThanSlot(Tail(facts), slot, n - 1)
       ELSE <<Head(facts)>> \o deleteFactsOlderThanSlot(Tail(facts), slot, n)

Doomed(facts, slot) == Cardinality({i \in 1..Len(facts) : facts[i].slot > slot})

\* if (options.lastCheckpointSlot && mostRecentCheckpointSlot < options.lastCheckpointSlot)
RollbackDetected(lastCheckpointSlot, mostRecentCheckpointSlot) ==
  lastCheckpointSlot # 0 /\ mostRecentCheckpointSlot < lastCheckpointSlot

\* the rotation branch forgets to push the new policy
AfterSync_NoPush(rc, rh) ==
  /\ cCkpt' = rc
  /\ cHash' = rh
  /\ UNCHANGED cPolicies
  /\ IF call = "rot1"
     THEN /\ pc' = "rotLast2"
          /\ err' = err
          /\ ClearLocals
     ELSE Finish("none")

\* the continuation of onTick after syncFactStatements returned {rc, rh}
AfterSync(rc, rh) ==
  /\ cCkpt' = rc
  /\ cHash' = rh
  /\ IF call = "rot1"
     THEN \* networkInCache and network are one object: both pushes land on it
          /\ cPolicies' = cPolicies \o latestPolicy \o latestPolicy
          /\ pc' = "rotLast2"
          /\ err' = err
          /\ ClearLocals
     ELSE /\ UNCHANGED cPolicies
          /\ Finish("none")

\* fetchMatchesFromKupo answered null
FetchNull ==
  IF call = "backfill"
  THEN \* populateIndex returns without updateNetwork
       /\ Finish("none")
       /\ UNCHANGED cacheVars
  ELSE AfterSync(cCkpt, cHash)

\* the status Kupo answers a matches request with
KupoStatus(ifNoneMatch) ==
  IF ifNoneMatch # NoHash /\ ifNoneMatch = Etag THEN 304 ELSE 200

\* the 304 branch is missing: the response is read like a 200
NotModified_NoBranch(status) == FALSE

\* if (response.status === 304) return null
NotModified(status) == status = 304

\* fetchMatchesFromKupo: `out` is what the environment does to the request
\* (fetch throws, the 200 lacks a header, the body fails the schema, or all is
\* well) and n the number of deletions that succeed in a detected rollback
SyncFetch ==
  /\ pc = "fetch"
  /\ LET policyToSearch == IF req.pol # <<>> THEN req.pol[1]
                           ELSE cPolicies[Len(cPolicies)]
         status == KupoStatus(req.lastHash)
         rollback == RollbackDetected(req.lastCkpt, Tip)
         doomed == Doomed(sFacts, Tip)
     IN  \E out \in {"neterr", "nohdr", "badbody", "ok"}, n \in 0..Len(sFacts) :
           IF out = "neterr" \/ NotModified(status) \/ out = "nohdr"
           THEN /\ n = 0
                /\ status = 304 => out \in {"neterr", "ok"}
                /\ Fault(out # "ok")
                /\ fetched' = CASE out = "neterr" -> "threw"
                                 [] out = "nohdr" -> "noHeaders"
                                 [] OTHER -> "notModified"
                /\ FetchNull
                /\ UNCHANGED sFacts
           ELSE /\ n = IF rollback THEN n ELSE 0
                /\ n <= doomed
                /\ Fault(out # "ok" \/ (rollback /\ n < doomed))
                /\ sFacts' = IF rollback
                             THEN deleteFactsOlderThanSlot(sFacts, Tip, n)
                             ELSE sFacts
                /\ IF out = "badbody"
                   THEN /\ fetched' = "badBody"
                        /\ FetchNull
                   ELSE LET transactions == KupoMatches(policyToSearch.policy_id,
                                                       req.after, req.before)
                        IN  /\ fetched' = "ok"
                            /\ resp' = [ckpt |-> Tip, hash |-> Etag,
                                        txs |-> Len(transactions)]
                            /\ pending' = transactions
                            /\ rolledBack' = rollback
                            /\ pc' = "process"
                            /\ UNCHANGED <<cacheVars, call, req, latestPolicy, bf,
                                           err, successfulCount, skippedCount>>
  /\ UNCHANGED <<chainVars, sExists, sCkpt, sHash, sPolicies>>

\* the rejection of a duplicate is not caught: it leaves indexFactStatements
indexFactStatements_Rethrow(facts, fact, dbOk) ==
  IF ~dbOk
  THEN [facts |-> facts, successful |-> 0, skipped |-> 0, thrown |-> FALSE]
  ELSE IF DbNotUnique(facts, fact)
  THEN [facts |-> facts, successful |-> 0, skipped |-> 1, thrown |-> TRUE]
  ELSE [facts |-> Append(facts, fact), successful |-> 1, skipped |-> 0, thrown |-> FALSE]

\* indexFactStatements for the facts of one transaction: db create per fact,
\* .then counts a success, .catch counts a duplicate or logs; allSettled
\* keeps every rejection from the caller
indexFactStatements(facts, fact, dbOk) ==
  IF ~dbOk
  THEN [facts |-> facts, successful |-> 0, skipped |-> 0, thrown |-> FALSE]
  ELSE IF DbNotUnique(facts, fact)
  THEN [facts |-> facts, successful |-> 0, skipped |-> 1, thrown |-> FALSE]
  ELSE [facts |-> Append(facts, fact), successful |-> 1, skipped |-> 0, thrown |-> FALSE]

ThrowSites == {"metadata", "datumHash", "datum", "feed"}

\* the exception is caught inside the loop and the batch goes on
Throw_Swallowed(e) ==
  /\ err' = e
  /\ pending' = Tail(pending)
  /\ UNCHANGED <<pc, call, req, resp, rolledBack, latestPolicy, bf,
                 successfulCount, skippedCount>>

\* an exception leaves syncFactStatements (onTick catches it) or populateIndex
Throw(e) == IF call = "backfill" THEN Halt(e) ELSE Finish(e)

\* one transaction of the batch in parseAndIndexMatches
SyncProcessTx ==
  /\ pc = "process"
  /\ pending # <<>>
  /\ LET m == Head(pending)
         fact == [fact_urn |-> m.urn, slot |-> m.slot,
                  block_hash |-> <<m.slot, m.fork>>,
                  policy |-> cPolicies[Len(cPolicies)].id]
     IN  \E out \in ThrowSites \cup {"ok", "dberr"} :
           /\ Fault(out # "ok")
           /\ IF out \in ThrowSites
              THEN /\ Throw(out)
                   /\ UNCHANGED sFacts
              ELSE LET r == indexFactStatements(sFacts, fact, out = "ok")
                   IN  IF r.thrown
                       THEN /\ Throw("insert")
                            /\ sFacts' = r.facts
                       ELSE /\ sFacts' = r.facts
                            /\ successfulCount' = r.successful
                            /\ skippedCount' = r.skipped
                            /\ pending' = Tail(pending)
                            /\ UNCHANGED <<pc, call, req, resp, rolledBack,
                                           latestPolicy, bf, err>>
  /\ UNCHANGED <<chainVars, sExists, sCkpt, sHash, sPolicies, cacheVars, fetched>>

\* updateNetwork({id, last_checkpoint_slot, last_block_hash}): a failed update
\* is logged and swallowed
updateNetwork(dbOk, ckpt, hash) ==
  IF dbOk
  THEN sCkpt' = ckpt /\ sHash' = hash
  ELSE UNCHANGED <<sCkpt, sHash>>

\* the await is missing: the checkpoint is written while inserts are pending
BatchDone_NoAwait == TRUE

\* await parseAndIndexMatches(network, response.transactions) has returned
BatchDone == pending = <<>>

\* the batch is through: syncFactStatements writes the checkpoint and returns
\* it; populateIndex only remembers it and goes on with the next window
SyncCommit ==
  /\ pc = "process"
  /\ BatchDone
  /\ IF call = "backfill"
     THEN /\ bf' = [bf EXCEPT !.cur = bf.end, !.ckpt = resp.ckpt, !.hash = resp.hash]
          /\ pc' = "bfLoop"
          /\ successfulCount' = 0
          /\ skippedCount' = 0
          /\ UNCHANGED <<sCkpt, sHash, cacheVars, faults, call, req, resp, pending,
                         rolledBack, latestPolicy, err>>
     ELSE /\ \E dbOk \in BOOLEAN :
               /\ Fault(~dbOk)
               /\ updateNetwork(dbOk, resp.ckpt, resp.hash)
          /\ AfterSync(resp.ckpt, resp.hash)
  /\ UNCHANGED <<chainVars, sExists, sPolicies, sFacts, fetched>>

(***************************************************************************)
(* The cron tick: initIndexSyncCronJob.onTick for the network.             *)
(***************************************************************************)
\* the trigger fires and onTick starts with syncFeeds(network, cachedFeeds)
TickSyncFeeds ==
  /\ pc = "idle"
  /\ \E feedsOk \in BOOLEAN :
       /\ Fault(~feedsOk)
       /\ IF feedsOk
          THEN /\ pc' = "policy"
               /\ UNCHANGED localVars
          ELSE Finish("feeds")
  /\ UNCHANGED <<chainVars, storeVars, cacheVars, fetched>>

\* the fetched ID is compared with the current policy only
policyAlreadyExists_CurrentOnly(policies, fetchedPolicyID) ==
  policies[Len(policies)].policy_id = fetchedPolicyID

\* network.policies.some((policy) => policy.policy_id === fetchedPolicyID)
policyAlreadyExists(policies, fetchedPolicyID) ==
  \E i \in 1..Len(policies) : policies[i].policy_id = fetchedPolicyID

\* getOrCreateLatestPolicy, then the branch on currentPolicy.policy_id !==
\* latestPolicy.policy_id
TickPolicy ==
  /\ pc = "policy"
  /\ \E out \in {"ok", "fetcherr", "dberr"} :
       LET fetchedPolicy == kPointer[Len(kPointer)]
           exists == policyAlreadyExists(cPolicies, fetchedPolicy.policy_id)
       IN  /\ Fault(out # "ok")
           /\ IF cPolicies = <<>> \/ out = "fetcherr"
                 \/ (out = "dberr" /\ ~exists)
              THEN /\ Finish("policy")
                   /\ UNCHANGED sPolicies
              ELSE IF exists
              THEN \* currentPolicy is returned: the plain sync
                   /\ out = "ok"
                   /\ req' = [lastHash |-> cHash, lastCkpt |-> cCkpt,
                              after |-> cCkpt, before |-> 0, pol |-> <<>>]
                   /\ call' = "sync"
                   /\ pc' = "fetch"
                   /\ UNCHANGED <<sPolicies, latestPolicy, err, resp, pending,
                                  rolledBack, bf, successfulCount, skippedCount>>
              ELSE \* createPolicy(newPolicy)
                   /\ Len(sPolicies) < MaxPolicies
                   /\ sPolicies' = Append(sPolicies, fetchedPolicy)
                   /\ latestPolicy' = <<[id |-> Len(sPolicies) + 1,
                                         policy_id |-> fetchedPolicy.policy_id,
                                         starting_slot |-> fetchedPolicy.starting_slot]>>
                   /\ pc' = "rotLast1"
                   /\ UNCHANGED <<req, call, err, resp, pending, rolledBack, bf,
                                  successfulCount, skippedCount>>
  /\ UNCHANGED <<chainVars, sExists, sCkpt, sHash, sFacts, cacheVars, fetched>>

\* getLastIndexedFact, then the request of the sync that follows it: bounded by
\* the new policy's starting slot before the push, unbounded after it
RotLastIndexed ==
  /\ pc \in {"rotLast1", "rotLast2"}
  /\ \E dbOk \in BOOLEAN :
       /\ Fault(~dbOk)
       /\ IF ~dbOk \/ sFacts = <<>>
          THEN Finish("lastFact")
          ELSE \E f \in LastIndexedFacts :
                 /\ req' = [lastHash |-> f.block_hash, lastCkpt |-> f.slot,
                            after |-> f.slot,
                            before |-> IF pc = "rotLast1"
                                       THEN latestPolicy[1].starting_slot ELSE 0,
                            pol |-> <<>>]
                 /\ call' = IF pc = "rotLast1" THEN "rot1" ELSE "rot2"
                 /\ pc' = "fetch"
                 /\ UNCHANGED <<err, resp, pending, rolledBack, latestPolicy, bf,
                                successfulCount, skippedCount>>
  /\ UNCHANGED <<chainVars, storeVars, cacheVars, fetched>>

\* the run (a tick, or the backfill before the cron job is set up) is over
TickEnd ==
  /\ pc = "done"
  /\ pc' = "idle"
  /\ err' = "none"
  /\ fetched' = "none"
  /\ UNCHANGED <<chainVars, storeVars, cacheVars, call, req, resp, pending,
                 rolledBack, latestPolicy, bf, successfulCount, skippedCount, faults>>

(***************************************************************************)
(* Spec.                                                                   *)
(***************************************************************************)
SyncInit ==
  /\ kChain = <<0>>
  /\ kFork = 0
  /\ kEvents = 0
  /\ kMatches = {}
  /\ kPointer = <<[policy_id |-> "P1", starting_slot |-> 1]>>
  /\ sExists = FALSE
  /\ sCkpt = 0
  /\ sHash = NoHash
  /\ sPolicies = <<>>
  /\ sFacts = <<>>
  /\ cCkpt = 0
  /\ cHash = NoHash
  /\ cPolicies = <<>>
  /\ pc = "boot"
  /\ call = "none"
  /\ req = NoReq
  /\ resp = NoResp
  /\ pending = <<>>
  /\ rolledBack = FALSE
  /\ latestPolicy = <<>>
  /\ bf = NoBf
  /\ err = "none"
  /\ successfulCount = 0
  /\ skippedCount = 0
  /\ fetched = "none"
  /\ faults = 0

CronIdle ==
  /\ tickPc = <<>>
  /\ fired = 0

ArchIdle ==
  /\ aFacts = 0
  /\ aPc = <<>>
  /\ activeCount = 0
  /\ aQueue = <<>>

NoDate == [time |-> -1]
TbIdle ==
  /\ tbNet = [zero_time |-> 0, zero_slot |-> 0, slot_length |-> SlotLength]
  /\ tbSlot = 0
  /\ tbDate = NoDate
  /\ tbBack = -1
  /\ tbPc = "idle"

others == <<cronVars, archVars, tbVars, parseVars, ixVars, nwVars, fdVars, pbVars,
  ppVars>>
cronOthers == <<syncVars, archVars, tbVars, parseVars, ixVars, nwVars, fdVars, pbVars,
  ppVars>>
archOthers == <<syncVars, cronVars, tbVars, parseVars, ixVars, nwVars, fdVars, pbVars,
  ppVars>>

(***************************************************************************)
(* SpecCron: the CronJob of initIndexSyncCronJob.  The job is made with     *)
(* cronTime, timeZone, start and onTick only: at every scheduled time the   *)
(* trigger calls onTick, an async function, and does not wait for the       *)
(* promise it returns.                                                      *)
(***************************************************************************)
MaxTicks == 3

NetworkSeeds == <<"Preview", "Mainnet">>
TickSteps == <<"syncFeeds", "getOrCreateLatestPolicy", "syncFactStatements">>

\* invocation i of onTick is inside its for loop
TickRunning(i) == tickPc[i].net <= Len(NetworkSeeds)
RunningTicks == {i \in 1..Len(tickPc) : TickRunning(i)}

\* the scheduled time comes: onTick is called
CronTrigger ==
  /\ fired < MaxTicks
  /\ fired' = fired + 1
  /\ tickPc' = Append(tickPc, [net |-> 1, step |-> 1, caught |-> {}])

\* an awaited call of the try block returns: the next one starts, or the
\* loop goes on with the next network
OnTickStep(i) ==
  /\ TickRunning(i)
  /\ tickPc' = [tickPc EXCEPT ![i] =
                  IF tickPc[i].step < Len(TickSteps)
                  THEN [tickPc[i] EXCEPT !.step = @ + 1]
                  ELSE [tickPc[i] EXCEPT !.net = @ + 1, !.step = 1]]
  /\ UNCHANGED fired

\* the catch ends the invocation, as a try block around the loop would
OnTickCatch_EndsTick(i) ==
  /\ TickRunning(i)
  /\ tickPc' = [tickPc EXCEPT ![i] = [net |-> Len(NetworkSeeds) + 1, step |-> 1,
                                       caught |-> tickPc[i].caught \cup {tickPc[i].net}]]
  /\ UNCHANGED fired

\* an awaited call of the try block throws: the catch logs it and the loop
\* goes on with the next network
OnTickCatch(i) ==
  /\ TickRunning(i)
  /\ tickPc' = [tickPc EXCEPT ![i] = [net |-> tickPc[i].net + 1, step |-> 1,
                                       caught |-> tickPc[i].caught \cup {tickPc[i].net}]]
  /\ UNCHANGED fired

NextCron ==
  \/ CronTrigger /\ UNCHANGED cronOthers
  \/ \E i \in 1..Len(tickPc) : OnTickStep(i) /\ UNCHANGED cronOthers
  \/ \E i \in 1..Len(tickPc) : OnTickCatch(i) /\ UNCHANGED cronOthers

(***************************************************************************)
(* SpecArchive: indexArchives and its p-limit pool.                        *)
(***************************************************************************)
MaxArchiveFacts == 6
Concurrency == 5

Working == {"getArchiveFiles", "parseArchive", "updateFactStatement"}
WorkingFacts == {i \in 1..Len(aPc) : aPc[i] \in Working}

\* every task runs at once, as facts.map(processFact) would
CanRun_NoLimit == TRUE

\* pLimit(5): a queued task starts only while fewer than 5 are active
CanRun == activeCount < Concurrency

\* indexArchives(network, facts) with at least one fact: every task is queued
ArchStart ==
  /\ aFacts = 0
  /\ \E n \in 1..MaxArchiveFacts :
       /\ aFacts' = n
       /\ aPc' = [i \in 1..n |-> "queued"]
       /\ aQueue' = [i \in 1..n |-> i]
  /\ activeCount' = 0

\* the pool starts the task at the head of its queue: processFact runs up to
\* its first await, or returns null for a fact without storage_urn
ArchDequeue ==
  /\ aQueue # <<>>
  /\ CanRun
  /\ activeCount' = activeCount + 1
  /\ aQueue' = Tail(aQueue)
  /\ \E st \in {"getArchiveFiles", "returned"} :
       aPc' = [aPc EXCEPT ![Head(aQueue)] = st]
  /\ UNCHANGED aFacts

\* an await of processFact resolves
ArchStep(i) ==
  /\ aPc[i] \in Working
  /\ aPc' = [aPc EXCEPT ![i] =
               CASE aPc[i] = "getArchiveFiles" -> "parseArchive"
                 [] aPc[i] = "parseArchive" -> "updateFactStatement"
                 [] OTHER -> "returned"]
  /\ UNCHANGED <<aFacts, activeCount, aQueue>>

\* getArchiveFiles answers null, or an await of processFact rejects
ArchFail(i) ==
  /\ aPc[i] \in Working
  /\ aPc' = [aPc EXCEPT ![i] = "returned"]
  /\ UNCHANGED <<aFacts, activeCount, aQueue>>

\* the pool sees the task settled: the slot is free
ArchNext(i) ==
  /\ aPc[i] = "returned"
  /\ aPc' = [aPc EXCEPT ![i] = "done"]
  /\ activeCount' = activeCount - 1
  /\ UNCHANGED <<aFacts, aQueue>>

\* Promise.all(tasks) has settled: indexArchives returns
ArchFinish ==
  /\ aFacts > 0
  /\ \A i \in 1..Len(aPc) : aPc[i] = "done"
  /\ aFacts' = 0
  /\ aPc' = <<>>
  /\ aQueue' = <<>>
  /\ activeCount' = 0

NextArchive ==
  \/ ArchStart /\ UNCHANGED archOthers
  \/ ArchDequeue /\ UNCHANGED archOthers
  \/ \E i \in 1..Len(aPc) : ArchStep(i) /\ UNCHANGED archOthers
  \/ \E i \in 1..Len(aPc) : ArchFail(i) /\ UNCHANGED archOthers
  \/ \E i \in 1..Len(aPc) : ArchNext(i) /\ UNCHANGED archOthers
  \/ ArchFinish /\ UNCHANGED archOthers

TxIds == {"t1", "t2"}

ParseIdle ==
  /\ pResp = <<>>
  /\ pMeta = [t \in TxIds |-> FALSE]
  /\ pGroups = <<>>
  /\ pFacts = <<>>
  /\ pCkpt = 0
  /\ pErr = "none"
  /\ pPc = "idle"

FactIds == {"f1", "f2", "f3"}
Archived == {"f1", "f2"}

NoWorker ==
  [pc |-> "none", nodePc |-> "done", srcPc |-> "done", nodes |-> <<>>,
   sources |-> <<>>, prior |-> 0, matching |-> {}, failed |-> FALSE]
Unarchived == [is_archive_indexed |-> FALSE, sources |-> <<>>, participating_nodes |-> <<>>]

IxIdle ==
  /\ ixArchive = [f \in Archived |-> [kind |-> "ok", node_urn |-> "n1", recipient |-> "R1"]]
  /\ ixFacts = [f \in FactIds |-> Unarchived]
  /\ ixNodes = <<>>
  /\ ixSources = <<>>
  /\ ixNodesCache = <<>>
  /\ ixSourcesCache = <<>>
  /\ ixW = [f \in FactIds |-> NoWorker]
  /\ ixRun = 0
  /\ ixOutcome = "none"
  /\ ixFaults = 0

(***************************************************************************)
(* SpecSlots: the slot/date conversions of util/network.ts, applied to a   *)
(* network record and a slot.  Times are in milliseconds; a Date is the     *)
(* object holding a time value.                                             *)
(***************************************************************************)
MaxSlotLength == 3
MaxSlotSpan == 5
ZeroTimes == {0, 7}
ZeroSlots == {0, 4}

TbNetworks ==
  [zero_time : ZeroTimes, zero_slot : ZeroSlots, slot_length : 1..MaxSlotLength]

\* Math.floor(a / b) of two integers, b > 0
Floor(a, b) == a \div b

slotToDate(slot, network) ==
  LET msAfterBegin == (slot - network.zero_slot) * network.slot_length
  IN  [time |-> network.zero_time + msAfterBegin]

\* the slots passed are rounded up
dateToSlot_Ceil(slotDate, network) ==
  LET unixTime == slotDate.time
      timePassed == unixTime - network.zero_time
      slotsPassed == Floor(timePassed + network.slot_length, network.slot_length)
  IN  slotsPassed + network.zero_slot

dateToSlot(slotDate, network) ==
  LET unixTime == slotDate.time
      timePassed == unixTime - network.zero_time
      slotsPassed == Floor(timePassed, network.slot_length)
  IN  slotsPassed + network.zero_slot

SlotsInit ==
  /\ tbNet \in TbNetworks
  /\ tbSlot \in tbNet.zero_slot .. tbNet.zero_slot + MaxSlotSpan
  /\ tbDate = NoDate
  /\ tbBack = -1
  /\ tbPc = "slot"

TbSlotToDate ==
  /\ tbPc = "slot"
  /\ tbDate' = slotToDate(tbSlot, tbNet)
  /\ tbPc' = "date"
  /\ UNCHANGED <<tbNet, tbSlot, tbBack>>

TbDateToSlot ==
  /\ tbPc = "date"
  /\ tbBack' = dateToSlot(tbDate, tbNet)
  /\ tbPc' = "back"
  /\ UNCHANGED <<tbNet, tbSlot, tbDate>>

slotsOthers == <<syncVars, cronVars, archVars, parseVars, ixVars, nwVars, fdVars, pbVars,
  ppVars>>

NextSlots ==
  \/ TbSlotToDate /\ UNCHANGED slotsOthers
  \/ TbDateToSlot /\ UNCHANGED slotsOthers

(***************************************************************************)
(* SpecParse: one syncFactStatements call from the Kupo response on:       *)
(* groupMatchesByTx, parseAndIndexMatches transaction by transaction, and  *)
(* the checkpoint update after it.  Transactions have several matched      *)
(* outputs; a JS string is a TLA+ string, a template literal the sequence  *)
(* of its parts.                                                           *)
(***************************************************************************)
MaxMatches == 3
MaxOutputIndex == 2
ParseSlots == {1, 2}
Null == "null"
DatumHashes == {"h1"}
TxRank == [t1 |-> 1, t2 |-> 2]
ParseNetwork == [zero_time |-> 7, zero_slot |-> 0, slot_length |-> SlotLength]

Outputs == TxIds \X (0..MaxOutputIndex)
MatchAttrs == ParseSlots \X (DatumHashes \cup {Null})

KupoMatch(output, attrs) ==
  [transaction_id |-> output[1], output_index |-> output[2],
   slot_no |-> attrs[1], datum_hash |-> attrs[2]]

\* the order of the response: oldest first, and inside a slot the later
\* output first (the order inside a slot is the index's own)
RECURSIVE KupoOrder(_)
KupoOrder(S) ==
  IF S = {} THEN <<>>
  ELSE LET m == CHOOSE x \in S : \A y \in S :
                  \/ x.slot_no < y.slot_no
                  \/ /\ x.slot_no = y.slot_no
                     /\ \/ TxRank[x.transaction_id] < TxRank[y.transaction_id]
                        \/ /\ x.transaction_id = y.transaction_id
                           /\ x.output_index >= y.output_index
       IN  <<m>> \o KupoOrder(S \ {m})

\* GET /metadata/{slot}?transaction_id=..: schema[1226].list.  Element j of
\* the DatumMetadata records names fact j of the transaction; the last one
\* tells that the archive was not made.
ToSLiterals ==
  {"Use oracle data at your own risk: https://orcfax.io/tos/",
   "Use oracle data at your own risk: https://orcfax.io/tos"}
ArweaveFailureMessages ==
  {"arweave tx not created", "send to Arkly feature is not currently enabled"}

DatumMetadata(txId, j) ==
  [map |-> <<[k |-> "id", v |-> <<"urn:orcfax", txId, j>>],
             [k |-> "src",
              v |-> IF j = MaxOutputIndex THEN "arweave tx not created"
                    ELSE <<"urn:arweave", txId, j>>]>>]

KupoMetadata(txId) ==
  (IF pMeta[txId]
   THEN <<[string |-> "Use oracle data at your own risk: https://orcfax.io/tos/"]>>
   ELSE <<>>)
  \o [j \in 1..MaxOutputIndex + 1 |-> DatumMetadata(txId, j - 1)]

\* fetchTransactionMetadataFromKupo answered null
NoMetadata == <<>>

\* OrcfaxToSSchema.safeParse(e).success
OrcfaxToS(e) == "string" \in DOMAIN e /\ e.string \in ToSLiterals

\* list[i] of a JS array
At(list, i) == list[i + 1]

\* GET /datums/{hash}, cbor-decoded with the tag-121 unwrapping: the
\* statement [feed id, validation time, [numerator, denominator]] and the
\* signature
KupoDatum(datumHash) ==
  <<<<"CER/ADA-USD/3", "1700000000000", <<"5", "20000000">>>>, <<"sig">>>>

decodeDatum(decoded) ==
  [feed_id |-> decoded[1][1],
   validation_date |-> decoded[1][2],
   numerator |-> decoded[1][3][1],
   denominator |-> decoded[1][3][2],
   datum_hash |-> At(decoded, 0)]

\* Array.prototype.toString of the decoded statement: the parts joined by ','
ArrayToString(a) == <<a[1], a[2], a[3][1], a[3][2]>>

\* blake2b(32).update(bytes).digest('hex'): a function of the bytes
blake2b(bytes) == [blake2b32 |-> bytes]

RECURSIVE TxOrder(_, _)
TxOrder(matches, seen) ==
  IF matches = <<>> THEN <<>>
  ELSE IF Head(matches).transaction_id \in seen
       THEN TxOrder(Tail(matches), seen)
       ELSE <<Head(matches).transaction_id>>
            \o TxOrder(Tail(matches), seen \cup {Head(matches).transaction_id})

RECURSIVE SelectTx(_, _)
SelectTx(matches, txId) ==
  IF matches = <<>> THEN <<>>
  ELSE IF Head(matches).transaction_id = txId
       THEN <<Head(matches)>> \o SelectTx(Tail(matches), txId)
       ELSE SelectTx(Tail(matches), txId)

\* value.sort((a, b) => a.output_index - b.output_index)
RECURSIVE SortByOutputIndex(_)
SortByOutputIndex(value) ==
  IF value = <<>> THEN <<>>
  ELSE LET rest == SortByOutputIndex(SubSeq(value, 1, Len(value) - 1))
           a == value[Len(value)]
           k == Cardinality({i \in 1..Len(rest) : rest[i].output_index <= a.output_index})
       IN  SubSeq(rest, 1, k) \o <<a>> \o SubSeq(rest, k + 1, Len(rest))

groupMatchesByTx(matches) ==
  LET keys == TxOrder(matches, {})
  IN  [i \in 1..Len(keys) |->
         [txId |-> keys[i],
          matches |-> SortByOutputIndex(SelectTx(matches, keys[i]))]]

\* the check is left out
SlotMismatch_NoCheck(matches) == FALSE

\* matches.some((tx) => tx.created_at.slot_no !== matches[0].created_at.slot_no)
SlotMismatch(matches) ==
  \E i \in 1..Len(matches) : matches[i].slot_no # At(matches, 0).slot_no

\* the head is dropped whatever it is
WithoutToS_Always(list) == Tail(list)

\* safeParse(list[0]).success ? list.slice(1) : list
WithoutToS(list) == IF OrcfaxToS(At(list, 0)) THEN Tail(list) ELSE list

\* the fact statement of matches[index]
FactOf(txId, match, transactionMetadata, index) ==
  LET datum == decodeDatum(KupoDatum(match.datum_hash))
      fact_urn == At(At(transactionMetadata, index).map, 0).v
      storage_urn == At(At(transactionMetadata, index).map, 1).v
  IN  [fact_urn |-> fact_urn,
       storage_urn |-> IF storage_urn \in ArweaveFailureMessages THEN "" ELSE storage_urn,
       transaction_id |-> txId,
       slot |-> match.slot_no,
       publication_date |-> slotToDate(match.slot_no, ParseNetwork),
       output_index |-> match.output_index,
       statement_hash |-> blake2b(ArrayToString(datum.datum_hash) \o <<fact_urn>>),
       is_archive_indexed |-> FALSE,
       datum_hash |-> match.datum_hash]

\* for (const [index, match] of matches.entries()): lookup[index] tells how
\* the datum fetch and the feed creation of that output end
RECURSIVE ParseOutputs(_, _, _, _, _, _)
ParseOutputs(txId, matches, transactionMetadata, lookup, index, factStatements) ==
  IF index >= Len(matches)
  THEN [thrown |-> "none", factStatements |-> factStatements]
  ELSE LET match == At(matches, index)
       IN  IF match.datum_hash = Null
           THEN [thrown |-> "datumHash", factStatements |-> factStatements]
           ELSE IF At(lookup, index) # "ok"
           THEN [thrown |-> At(lookup, index), factStatements |-> factStatements]
           ELSE IF index >= Len(transactionMetadata)
           THEN [thrown |-> "TypeError", factStatements |-> factStatements]
           ELSE ParseOutputs(txId, matches, transactionMetadata, lookup, index + 1,
                             Append(factStatements,
                                    FactOf(txId, match, transactionMetadata, index)))

\* one turn of the loop over the transactions, up to indexFactStatements
ParseTx(txId, matches, metadata, lookup) ==
  IF SlotMismatch(matches)
  THEN [thrown |-> "slotMismatch", factStatements |-> <<>>]
  ELSE IF metadata = NoMetadata
  THEN [thrown |-> "metadata", factStatements |-> <<>>]
  ELSE ParseOutputs(txId, matches, WithoutToS(metadata), lookup, 0, <<>>)

\* how the awaited calls of one turn may end
Lookups(matches) ==
  {[i \in 1..Len(matches) |-> IF i = failAt THEN kind ELSE "ok"] :
     failAt \in 0..Len(matches), kind \in {"datum", "feed"}}

RECURSIVE IndexAll(_, _, _)
IndexAll(facts, factStatements, dbOk) ==
  IF factStatements = <<>> THEN facts
  ELSE IndexAll(indexFactStatements(facts, Head(factStatements), dbOk).facts,
                Tail(factStatements), dbOk)

ParseInit ==
  /\ \E P \in SUBSET Outputs :
       /\ Cardinality(P) <= MaxMatches
       /\ \E attrs \in [P -> MatchAttrs] :
            pResp = KupoOrder({KupoMatch(o, attrs[o]) : o \in P})
  /\ pMeta \in [TxIds -> BOOLEAN]
  /\ pGroups = <<>>
  /\ pFacts = <<>>
  /\ pCkpt = 0
  /\ pErr = "none"
  /\ pPc = "fetch"

\* fetchMatchesFromKupo returns the grouped transactions
FetchMatches ==
  /\ pPc = "fetch"
  /\ pGroups' = groupMatchesByTx(pResp)
  /\ pPc' = "parse"
  /\ UNCHANGED <<pResp, pMeta, pFacts, pCkpt, pErr>>

\* a turn of the loop throws: the error leaves parseAndIndexMatches and
\* syncFactStatements
ParseTxThrow ==
  /\ pPc = "parse"
  /\ pGroups # <<>>
  /\ LET tx == Head(pGroups)
     IN  \E metaOk \in BOOLEAN, lookup \in Lookups(tx.matches) :
           LET r == ParseTx(tx.txId, tx.matches,
                            IF metaOk THEN KupoMetadata(tx.txId) ELSE NoMetadata,
                            lookup)
           IN  /\ r.thrown # "none"
               /\ pErr' = r.thrown
  /\ pPc' = "threw"
  /\ UNCHANGED <<pResp, pMeta, pGroups, pFacts, pCkpt>>

\* a turn of the loop gets through: the transaction's facts are indexed
ParseTxIndex ==
  /\ pPc = "parse"
  /\ pGroups # <<>>
  /\ LET tx == Head(pGroups)
     IN  \E lookup \in Lookups(tx.matches), dbOk \in BOOLEAN :
           LET r == ParseTx(tx.txId, tx.matches, KupoMetadata(tx.txId), lookup)
           IN  /\ r.thrown = "none"
               /\ pFacts' = IndexAll(pFacts, r.factStatements, dbOk)
  /\ pGroups' = Tail(pGroups)
  /\ UNCHANGED <<pResp, pMeta, pCkpt, pErr, pPc>>

\* the loop is through: syncFactStatements writes the checkpoint
ParseCommit ==
  /\ pPc = "parse"
  /\ pGroups = <<>>
  /\ \E dbOk \in BOOLEAN : pCkpt' = IF dbOk THEN 1 ELSE pCkpt
  /\ pPc' = "done"
  /\ UNCHANGED <<pResp, pMeta, pGroups, pFacts, pErr>>

parseOthers == <<syncVars, cronVars, archVars, tbVars, ixVars, nwVars, fdVars, pbVars,
  ppVars>>

NextParse ==
  \/ FetchMatches /\ UNCHANGED parseOthers
  \/ ParseTxThrow /\ UNCHANGED parseOthers
  \/ ParseTxIndex /\ UNCHANGED parseOthers
  \/ ParseCommit /\ UNCHANGED parseOthers

(***************************************************************************)
(* SpecIndexer: runs of the archive indexer.  A run takes the facts of      *)
(* getAllUnarchivedFacts and gives them to indexArchives, whose processFact *)
(* calls share cachedNodes and cachedSources.  With at most two facts in a  *)
(* run the pool of five (SpecArchive) starts every call at once.  An        *)
(* archive holds one validation file and one message file of the source     *)
(* "kraken"; the files can be unparsable.                                   *)
(***************************************************************************)
MaxRuns == 2
MaxIxFaults == 1
ArchiveKinds == {"ok", "noValidation", "badMessage"}

StorageUrn(f) == IF f \in Archived THEN <<"urn:arweave", f>> ELSE ""

\* array.find(test), given the places of the elements that pass the test:
\* the first of them, 0 for undefined
Find(array, passing) ==
  IF passing = {} THEN 0
  ELSE array[CHOOSE i \in passing : \A j \in passing : i <= j]

\* a fetch or a store call ends well or fails, within the fault budget
IxFault(failed) ==
  /\ failed => ixFaults < MaxIxFaults
  /\ ixFaults' = IF failed THEN ixFaults + 1 ELSE ixFaults

\* facts.getFullList(is_archive_indexed = false && storage_urn != "")
getAllUnarchivedFacts ==
  {f \in FactIds : ~ixFacts[f].is_archive_indexed /\ StorageUrn(f) # ""}

IxSettled == \A f \in FactIds : ixW[f].pc \in {"none", "done", "threw"}

IxInit ==
  /\ \E k1, k2 \in ArchiveKinds, u2 \in {"n1", "n2"},
        r1 \in {"R1", "R2"}, r2 \in {"R2", "R3"} :
       ixArchive = [f \in Archived |->
                      IF f = "f1"
                      THEN [kind |-> k1, node_urn |-> "n1", recipient |-> r1]
                      ELSE [kind |-> k2, node_urn |-> u2, recipient |-> r2]]
  /\ ixFacts = [f \in FactIds |-> Unarchived]
  /\ ixNodes \in {<<>>, <<[node_urn |-> "n1"]>>}
  /\ ixSources \in {<<>>, <<[name |-> "kraken", recipient |-> "R1",
                             status |-> "active", website |-> "w1"]>>}
  /\ ixNodesCache = <<>>
  /\ ixSourcesCache = <<>>
  /\ ixW = [f \in FactIds |-> NoWorker]
  /\ ixRun = 0
  /\ ixOutcome = "none"
  /\ ixFaults = 0

\* a run begins: the unarchived facts are read, indexArchives loads the two
\* caches and starts processFact for every fact, each up to its fetch
IxRunStart ==
  /\ ixOutcome # "running"
  /\ IxSettled
  /\ ixRun < MaxRuns
  /\ ixRun' = ixRun + 1
  /\ LET facts == getAllUnarchivedFacts
     IN  IF facts = {}
         THEN /\ ixOutcome' = "completed"
              /\ ixW' = [f \in FactIds |-> NoWorker]
              /\ UNCHANGED <<ixNodesCache, ixSourcesCache>>
         ELSE /\ ixOutcome' = "running"
              /\ ixNodesCache' = [i \in 1..Len(ixNodes) |-> i]
              /\ ixSourcesCache' = [i \in 1..Len(ixSources) |-> i]
              /\ ixW' = [f \in FactIds |->
                           IF f \in facts /\ StorageUrn(f) # ""
                           THEN [NoWorker EXCEPT !.pc = "files"]
                           ELSE NoWorker]
  /\ UNCHANGED <<ixArchive, ixFacts, ixNodes, ixSources, ixFaults>>

\* getArchiveFiles answers.  null: processFact returns null.  The files:
\* getNodeDetailsFromArchive and getSourceDetailsFromArchive both run up to
\* their first await, so both caches are looked up here.
IxFiles(f) ==
  /\ ixW[f].pc = "files"
  /\ \E ok \in BOOLEAN :
       /\ IxFault(~ok)
       /\ IF ~ok
          THEN ixW' = [ixW EXCEPT ![f] = [@ EXCEPT !.pc = "done", !.failed = TRUE]]
          ELSE LET a == ixArchive[f]
                   SameNode(id) == ixNodes[id].node_urn = a.node_urn
                   SameRecipient(id) == ixSources[id].recipient = a.recipient
                   SameSender(id) == /\ ixSources[id].name = "kraken"
                                     /\ ixSources[id].recipient # a.recipient
                   hasCachedNode ==
                     Find(ixNodesCache, {k \in 1..Len(ixNodesCache) :
                                           SameNode(ixNodesCache[k])})
                   hasCachedSource ==
                     Find(ixSourcesCache, {k \in 1..Len(ixSourcesCache) :
                                             SameRecipient(ixSourcesCache[k])})
                   existingSource ==
                     Find(ixSourcesCache, {k \in 1..Len(ixSourcesCache) :
                                             SameSender(ixSourcesCache[k])})
               IN  ixW' = [ixW EXCEPT ![f] =
                     [pc |-> "parse",
                      nodePc |-> IF a.kind # "noValidation" /\ hasCachedNode = 0
                                 THEN "creating" ELSE "done",
                      nodes |-> IF a.kind # "noValidation" /\ hasCachedNode # 0
                                THEN <<hasCachedNode>> ELSE <<>>,
                      srcPc |-> IF a.kind = "badMessage" \/ hasCachedSource # 0
                                THEN "done"
                                ELSE IF existingSource # 0 THEN "updating"
                                ELSE "creating",
                      sources |-> IF a.kind # "badMessage" /\ hasCachedSource # 0
                                  THEN <<hasCachedSource>> ELSE <<>>,
                      prior |-> IF a.kind # "badMessage" /\ hasCachedSource = 0
                                THEN existingSource ELSE 0,
                      matching |-> IF a.kind # "badMessage" /\ hasCachedSource = 0
                                   THEN {id \in Range(ixSourcesCache) : SameSender(id)}
                                   ELSE {},
                      failed |-> a.kind # "ok"]]
  /\ UNCHANGED <<ixArchive, ixFacts, ixNodes, ixSources, ixNodesCache,
                 ixSourcesCache, ixRun, ixOutcome>>

\* the store takes the record, or answers with an error: a failure of the
\* call, or the refusal of a record whose key is already there
IxCreate(isDuplicate, ok) ==
  IF isDuplicate THEN UNCHANGED ixFaults ELSE IxFault(~ok)

\* createNode answers: a new node goes to the result and to the cache
IxNodeCreated(f) ==
  /\ ixW[f].pc = "parse"
  /\ ixW[f].nodePc = "creating"
  /\ \E ok \in BOOLEAN :
       /\ IxCreate(\E i \in 1..Len(ixNodes) :
                     ixNodes[i].node_urn = ixArchive[f].node_urn, ok)
       /\ IF ok
          THEN /\ ixNodes' = Append(ixNodes, [node_urn |-> ixArchive[f].node_urn])
               /\ ixNodesCache' = Append(ixNodesCache, Len(ixNodes) + 1)
               /\ ixW' = [ixW EXCEPT ![f] = [@ EXCEPT !.nodePc = "done",
                                                       !.nodes = <<Len(ixNodes) + 1>>]]
          ELSE /\ ixW' = [ixW EXCEPT ![f] = [@ EXCEPT !.nodePc = "done"]]
               /\ UNCHANGED <<ixNodes, ixNodesCache>>
  /\ UNCHANGED <<ixArchive, ixFacts, ixSources, ixSourcesCache, ixRun, ixOutcome>>

\* updateSource({id, status: 'inactive'}) answers; createSource is called
IxSourceUpdated(f) ==
  /\ ixW[f].pc = "parse"
  /\ ixW[f].srcPc = "updating"
  /\ \E ok \in BOOLEAN :
       /\ IxFault(~ok)
       /\ ixSources' = IF ok
                       THEN [ixSources EXCEPT ![ixW[f].prior].status = "inactive"]
                       ELSE ixSources
  /\ ixW' = [ixW EXCEPT ![f] = [@ EXCEPT !.srcPc = "creating"]]
  /\ UNCHANGED <<ixArchive, ixFacts, ixNodes, ixNodesCache, ixSourcesCache,
                 ixRun, ixOutcome>>

\* createSource answers: a new source goes to the result and to the cache
IxSourceCreated(f) ==
  /\ ixW[f].pc = "parse"
  /\ ixW[f].srcPc = "creating"
  /\ \E ok \in BOOLEAN :
       /\ IxCreate(\E i \in 1..Len(ixSources) :
                     ixSources[i].recipient = ixArchive[f].recipient, ok)
       /\ IF ok
          THEN /\ ixSources' =
                    Append(ixSources,
                           [name |-> "kraken",
                            recipient |-> ixArchive[f].recipient,
                            status |-> "active",
                            website |-> IF ixW[f].prior # 0
                                        THEN ixSources[ixW[f].prior].website
                                        ELSE ""])
               /\ ixSourcesCache' = Append(ixSourcesCache, Len(ixSources) + 1)
               /\ ixW' = [ixW EXCEPT ![f] = [@ EXCEPT !.srcPc = "done",
                                                       !.sources = <<Len(ixSources) + 1>>]]
          ELSE /\ ixW' = [ixW EXCEPT ![f] = [@ EXCEPT !.srcPc = "done"]]
               /\ UNCHANGED <<ixSources, ixSourcesCache>>
  /\ UNCHANGED <<ixArchive, ixFacts, ixNodes, ixNodesCache, ixRun, ixOutcome>>

\* both parses have answered: getFactDetailsFromArchive reads the
\* validation file again and throws without one, which rejects the task and
\* Promise.all(tasks); otherwise updateFactStatement is called
IxDetails(f) ==
  /\ ixW[f].pc = "parse"
  /\ ixW[f].nodePc = "done"
  /\ ixW[f].srcPc = "done"
  /\ IF ixArchive[f].kind = "noValidation"
     THEN /\ ixW' = [ixW EXCEPT ![f] = [@ EXCEPT !.pc = "threw"]]
          /\ ixOutcome' = "rejected"
     ELSE /\ ixW' = [ixW EXCEPT ![f] = [@ EXCEPT !.pc = "patch"]]
          /\ UNCHANGED ixOutcome
  /\ UNCHANGED <<ixArchive, ixFacts, ixNodes, ixSources, ixNodesCache,
                 ixSourcesCache, ixRun, ixFaults>>

\* updateFactStatement answers; a failure is logged and swallowed
IxPatched(f) ==
  /\ ixW[f].pc = "patch"
  /\ \E ok \in BOOLEAN :
       /\ IxFault(~ok)
       /\ ixFacts' = IF ok
                     THEN [ixFacts EXCEPT ![f] =
                             [is_archive_indexed |-> TRUE,
                              sources |-> ixW[f].sources,
                              participating_nodes |-> ixW[f].nodes]]
                     ELSE ixFacts
  /\ ixW' = [ixW EXCEPT ![f] = [@ EXCEPT !.pc = "done"]]
  /\ UNCHANGED <<ixArchive, ixNodes, ixSources, ixNodesCache, ixSourcesCache,
                 ixRun, ixOutcome>>

\* every task has resolved: Promise.all resolves and indexArchives returns
IxRunEnd ==
  /\ ixOutcome = "running"
  /\ \A f \in FactIds : ixW[f].pc \in {"none", "done"}
  /\ ixOutcome' = "completed"
  /\ UNCHANGED <<ixArchive, ixFacts, ixNodes, ixSources, ixNodesCache,
                 ixSourcesCache, ixW, ixRun, ixFaults>>

ixOthers == <<syncVars, cronVars, archVars, tbVars, parseVars, nwVars, fdVars, pbVars,
  ppVars>>

NextIndexer ==
  \/ IxRunStart /\ UNCHANGED ixOthers
  \/ \E f \in FactIds : IxFiles(f) /\ UNCHANGED ixOthers
  \/ \E f \in FactIds : IxNodeCreated(f) /\ UNCHANGED ixOthers
  \/ \E f \in FactIds : IxSourceUpdated(f) /\ UNCHANGED ixOthers
  \/ \E f \in FactIds : IxSourceCreated(f) /\ UNCHANGED ixOthers
  \/ \E f \in FactIds : IxDetails(f) /\ UNCHANGED ixOthers
  \/ \E f \in FactIds : IxPatched(f) /\ UNCHANGED ixOthers
  \/ IxRunEnd /\ UNCHANGED ixOthers

(***************************************************************************)
(* SpecNetworks: which networks the process works on.  getNetworks reads   *)
(* the stored network records and creates the missing seeds; index.ts      *)
(* backfills every returned network whose index is empty and hands the     *)
(* list to the cron job, whose onTick loops over it.                       *)
(***************************************************************************)
MaxNwTicks == 1

NwNames == Range(NetworkSeeds)
NwComponents == Range(TickSteps) \cup {"populateIndex"}

\* the networks collection at the start of the process: of each seed's
\* network no record, an enabled record or a disabled record
NwStoredOf(c) ==
  LET rec(n) == IF c[n] = "absent" THEN <<>>
                ELSE <<[name |-> n, is_enabled |-> c[n] = "enabled"]>>
  IN  rec(NetworkSeeds[1]) \o rec(NetworkSeeds[2])

NwIdle ==
  /\ nwStored = <<>>
  /\ nwSeedEnabled = [n \in NwNames |-> TRUE]
  /\ nwCached = <<>>
  /\ nwPc = "boot"
  /\ nwNet = 1
  /\ nwStep = 1
  /\ nwTicks = 0
  /\ nwPassed = {}

NwInit ==
  /\ nwStored \in {NwStoredOf(c) : c \in [NwNames -> {"absent", "enabled", "disabled"}]}
  /\ nwSeedEnabled \in [NwNames -> BOOLEAN]
  /\ nwCached = <<>>
  /\ nwPc = "boot"
  /\ nwNet = 1
  /\ nwStep = 1
  /\ nwTicks = 0
  /\ nwPassed = {}

\* the Network objects of the stored records, with the store's ids
NwRecords(stored) ==
  [i \in 1..Len(stored) |->
     [id |-> i, name |-> stored[i].name, is_enabled |-> stored[i].is_enabled]]

\* populateNetwork(seed): null for a disabled seed or a failed createNetwork
populateNetwork(seed, dbOk) == nwSeedEnabled[seed] /\ dbOk

\* getNetworks: getAllNetworks (every stored record; [] when the query
\* fails), then populateNetwork for the seeds whose name it did not return;
\* `created` are the seeds whose createNetwork call succeeds
NwGetNetworks ==
  /\ nwPc = "boot"
  /\ \E dbOk \in BOOLEAN, created \in SUBSET NwNames :
       LET existingNetworks == IF dbOk THEN NwRecords(nwStored) ELSE <<>>
           names == {existingNetworks[i].name : i \in 1..Len(existingNetworks)}
           missingSeeds == Filter(NetworkSeeds, NwNames \ names)
           populated == Filter(missingSeeds,
                               {n \in NwNames : populateNetwork(n, n \in created)})
           newRecords == [i \in 1..Len(populated) |->
                            [name |-> populated[i], is_enabled |-> nwSeedEnabled[populated[i]]]]
       IN  /\ created \subseteq {n \in Range(missingSeeds) : nwSeedEnabled[n]}
           /\ nwStored' = nwStored \o newRecords
           /\ nwCached' = existingNetworks \o
                            SubSeq(NwRecords(nwStored'), Len(nwStored) + 1, Len(nwStored'))
  /\ nwPc' = "setup"
  /\ nwNet' = 1
  /\ UNCHANGED <<nwSeedEnabled, nwStep, nwTicks, nwPassed>>

\* index.ts: for (const network of networks) if (await isIndexEmpty(network))
\* await populateIndex(network); then initIndexSyncCronJob(networks).  An
\* exception of populateIndex reaches the catch of index.ts
NwSetup ==
  /\ nwPc = "setup"
  /\ IF nwNet > Len(nwCached)
     THEN /\ nwPc' = "cron"
          /\ UNCHANGED <<nwNet, nwPassed>>
     ELSE \E empty \in BOOLEAN, threw \in BOOLEAN :
            /\ threw => empty
            /\ nwPassed' = IF empty
                           THEN nwPassed \cup {[component |-> "populateIndex",
                                               network |-> nwCached[nwNet]]}
                           ELSE nwPassed
            /\ nwPc' = IF threw THEN "halt" ELSE "setup"
            /\ nwNet' = nwNet + 1
  /\ UNCHANGED <<nwStored, nwSeedEnabled, nwCached, nwStep, nwTicks>>

\* the scheduled time comes: onTick starts its loop over cachedNetworks
NwTrigger ==
  /\ nwPc = "cron"
  /\ nwTicks < MaxNwTicks
  /\ nwTicks' = nwTicks + 1
  /\ nwPc' = "tick"
  /\ nwNet' = 1
  /\ nwStep' = 1
  /\ UNCHANGED <<nwStored, nwSeedEnabled, nwCached, nwPassed>>

\* one call of the try block of onTick for the network the loop is at; when
\* it throws, or was the last one, the loop goes on with the next network
NwTickStep ==
  /\ nwPc = "tick"
  /\ IF nwNet > Len(nwCached)
     THEN /\ nwPc' = "cron"
          /\ UNCHANGED <<nwNet, nwStep, nwPassed>>
     ELSE \E threw \in BOOLEAN :
            /\ nwPassed' = nwPassed \cup {[component |-> TickSteps[nwStep],
                                          network |-> nwCached[nwNet]]}
            /\ IF threw \/ nwStep = Len(TickSteps)
               THEN nwNet' = nwNet + 1 /\ nwStep' = 1
               ELSE nwNet' = nwNet /\ nwStep' = nwStep + 1
            /\ nwPc' = "tick"
  /\ UNCHANGED <<nwStored, nwSeedEnabled, nwCached, nwTicks>>

nwOthers == <<syncVars, cronVars, archVars, tbVars, parseVars, ixVars, fdVars, pbVars,
  ppVars>>

NextNetworks ==
  \/ NwGetNetworks /\ UNCHANGED nwOthers
  \/ NwSetup /\ UNCHANGED nwOthers
  \/ NwTrigger /\ UNCHANGED nwOthers
  \/ NwTickStep /\ UNCHANGED nwOthers

(***************************************************************************)
(* SpecFeeds: syncFeeds of util/feeds.ts, called by onTick for each        *)
(* network in turn with the one cachedFeeds of initIndexSyncCronJob.       *)
(***************************************************************************)
MaxFdTicks == 2
MaxPublishes == 1
MaxFdFaults == 1

\* String.prototype.toUpperCase and toLowerCase on the strings of the model
toUpperCase(s) ==
  CASE s = "cex" -> "CEX"
    [] s = "dex" -> "DEX"
    [] OTHER -> s
toLowerCase(s) ==
  CASE s = "ADA" -> "ada"
    [] s = "USD" -> "usd"
    [] s = "BTC" -> "btc"
    [] OTHER -> s

\* an entry of the manifest (ActiveFeedsSchema); a label is the sequence of
\* the parts that split(/[/-]/) gives
ActiveFeed(label, interval) ==
  [label |-> label, interval |-> interval, deviation |-> 1, source |-> "cex",
   calculation |-> "median", status |-> "showcase", type |-> "CER"]
ActiveFeeds(feeds) ==
  [meta |-> [description |-> "Active feeds", version |-> 1], feeds |-> feeds]

\* the manifests a network's active_feeds_url can serve
FdManifests ==
  LET adaUsd == ActiveFeed(<<"ADA", "USD">>, 1)
      adaUsdChanged == ActiveFeed(<<"ADA", "USD">>, 2)
      btcUsd == ActiveFeed(<<"BTC", "USD">>, 1)
  IN {ActiveFeeds(<<>>), ActiveFeeds(<<adaUsd>>), ActiveFeeds(<<adaUsdChanged>>),
      ActiveFeeds(<<adaUsd, btcUsd>>)}

\* the feeds and assets collections when the process starts: empty; an asset
\* whose ticker is written in lower case; or what earlier runs of the
\* process left after ADA-USD was listed for Preview and then withdrawn
FdStoreInits ==
  {[feeds |-> <<>>, assets |-> <<>>],
   [feeds |-> <<>>, assets |-> <<[id |-> 1, ticker |-> "ada"]>>],
   [feeds |-> <<[id |-> 1, network |-> "Preview", feed_id |-> <<"CER", <<"ADA", "USD">>, 3>>,
                 version |-> 3, type |-> "CER", name |-> <<"ADA", "USD">>,
                 status |-> "inactive", source_type |-> "CEX",
                 funding_type |-> "showcase", calculation_method |-> "median",
                 heartbeat_interval |-> 1, deviation |-> 1,
                 base_asset |-> 1, quote_asset |-> 2]>>,
    assets |-> <<[id |-> 1, ticker |-> "ADA"], [id |-> 2, ticker |-> "USD"]>>]}

\* JSON.stringify of a parsed manifest: the values in the order of the schema
JSONstringify(m) ==
  <<m.meta.description, m.meta.version,
    [i \in 1..Len(m.feeds) |->
       <<m.feeds[i].label, m.feeds[i].interval, m.feeds[i].deviation,
         m.feeds[i].source, m.feeds[i].calculation, m.feeds[i].status,
         m.feeds[i].type>>]>>

\* array.find / findIndex: the first place that passes, 0 when none does
FindIndex(passing) ==
  IF passing = {} THEN 0
  ELSE CHOOSE i \in passing : \A j \in passing : i <= j

\* `${activeFeed.type}/${activeFeed.label}/3`
FeedId(activeFeed) == <<activeFeed.type, activeFeed.label, 3>>

\* the skip of syncFeeds: a cache is given and serialises like the manifest
ManifestUnchanged_Never(cache, activeFeeds) ==
  FALSE
ManifestUnchanged(cache, activeFeeds) ==
  cache # <<>> /\ JSONstringify(cache[1]) = JSONstringify(activeFeeds)

isFeedChanged(activeFeed, storedFeed) ==
  \/ activeFeed.label # storedFeed.name
  \/ toUpperCase(activeFeed.source) # storedFeed.source_type
  \/ activeFeed.status # storedFeed.funding_type
  \/ activeFeed.calculation # storedFeed.calculation_method
  \/ activeFeed.interval # storedFeed.heartbeat_interval
  \/ activeFeed.deviation # storedFeed.deviation

\* <<base, quote>>, or <<>> when it throws 'Invalid feed name format'
extractTickersFromFeedName(feedName) ==
  IF Len(feedName) # 2 THEN <<>> ELSE <<feedName[1], feedName[2]>>

\* fetchFeeds(network): the network's records, or [] when the call fails
fetchFeeds(network, ok) ==
  IF ok THEN SelectSeq(fdFeeds, LAMBDA f : f.network = network) ELSE <<>>

\* getAllAssets(): the records, or [] when the call fails
getAllAssets(ok) == IF ok THEN fdAssets ELSE <<>>

\* the loop of getOrCreateAssets: oks[k] says whether a createAsset for the
\* k-th ticker goes well; gives the collection, the result, the places in
\* the list of tickers for which createAsset was called, and whether it threw
RECURSIVE getOrCreateAssetsLoop(_, _, _, _, _, _)
getOrCreateAssetsLoop(tickers, k, oks, existingAssets, store, resultAssets) ==
  IF k > Len(tickers)
  THEN [threw |-> FALSE, assets |-> store, result |-> resultAssets, called |-> {}]
  ELSE
    LET tickerLower == toLowerCase(tickers[k])
        existingAsset ==
          FindIndex({i \in 1..Len(existingAssets) :
                       toLowerCase(existingAssets[i].ticker) = tickerLower})
        newAsset == [id |-> Len(store) + 1, ticker |-> tickers[k]]
        rest == IF existingAsset # 0
                THEN getOrCreateAssetsLoop(tickers, k + 1, oks, existingAssets, store,
                                           Append(resultAssets, existingAssets[existingAsset]))
                ELSE getOrCreateAssetsLoop(tickers, k + 1, oks, existingAssets,
                                           Append(store, newAsset),
                                           Append(resultAssets, newAsset))
    IN IF existingAsset # 0 THEN rest
       ELSE IF oks[k] THEN [rest EXCEPT !.called = @ \cup {k}]
       ELSE [threw |-> TRUE, assets |-> store, result |-> resultAssets, called |-> {k}]

getOrCreateAssets(tickers, assetsOk, oks) ==
  getOrCreateAssetsLoop(tickers, 1, oks, getAllAssets(assetsOk), fdAssets, <<>>)

\* assets.find((asset) => asset.ticker === ticker)?.id, 0 for undefined
AssetId(assets, ticker) ==
  LET at == FindIndex({i \in 1..Len(assets) : assets[i].ticker = ticker})
  IN IF at = 0 THEN 0 ELSE assets[at].id

\* a fetch or a store call ends well or fails, within the fault budget
FdFault(failures) ==
  /\ fdFaults + failures <= MaxFdFaults
  /\ fdFaults' = fdFaults + failures

FdIdle ==
  /\ fdManifest = [n \in Range(NetworkSeeds) |-> ActiveFeeds(<<>>)]
  /\ fdFeeds = <<>>
  /\ fdAssets = <<>>
  /\ cachedFeeds = <<>>
  /\ fdFetched = [n \in Range(NetworkSeeds) |-> <<>>]
  /\ fdPc = "idle"
  /\ fdNet = 1
  /\ fdStored = <<>>
  /\ fdActive = ActiveFeeds(<<>>)
  /\ fdI = 1
  /\ fdProcessed = {}
  /\ fdOutcome = [network |-> "", result |-> "none"]
  /\ fdTicks = 0
  /\ fdPublishes = 0
  /\ fdFaults = 0

\* a started process: no cache yet (let cachedFeeds)
FdInit ==
  /\ fdManifest \in [Range(NetworkSeeds) -> FdManifests]
  /\ \E store \in FdStoreInits : fdFeeds = store.feeds /\ fdAssets = store.assets
  /\ cachedFeeds = <<>>
  /\ fdFetched = [n \in Range(NetworkSeeds) |-> <<>>]
  /\ fdPc = "idle"
  /\ fdNet = 1
  /\ fdStored = <<>>
  /\ fdActive = ActiveFeeds(<<>>)
  /\ fdI = 1
  /\ fdProcessed = {}
  /\ fdOutcome = [network |-> "", result |-> "none"]
  /\ fdTicks = 0
  /\ fdPublishes = 0
  /\ fdFaults = 0

\* the manifest behind a network's active_feeds_url is replaced
FdPublish ==
  /\ fdPc = "idle"
  /\ fdPublishes < MaxPublishes
  /\ \E n \in Range(NetworkSeeds), m \in FdManifests :
       /\ m # fdManifest[n]
       /\ fdManifest' = [fdManifest EXCEPT ![n] = m]
  /\ fdPublishes' = fdPublishes + 1
  /\ UNCHANGED <<fdFeeds, fdAssets, cachedFeeds, fdFetched, fdPc, fdNet, fdStored,
                 fdActive, fdI, fdProcessed, fdOutcome, fdTicks, fdFaults>>

\* onTick starts its loop over the networks
FdTrigger ==
  /\ fdPc = "idle"
  /\ fdTicks < MaxFdTicks
  /\ fdTicks' = fdTicks + 1
  /\ fdNet' = 1
  /\ fdPc' = "syncFeeds"
  /\ UNCHANGED <<fdManifest, fdFeeds, fdAssets, cachedFeeds, fdFetched, fdStored,
                 fdActive, fdI, fdProcessed, fdOutcome, fdPublishes, fdFaults>>

\* syncFeeds leaves: onTick goes on to the next network
FdLeave(result) ==
  /\ fdOutcome' = [network |-> NetworkSeeds[fdNet], result |-> result]
  /\ IF fdNet < Len(NetworkSeeds)
     THEN fdNet' = fdNet + 1 /\ fdPc' = "syncFeeds"
     ELSE fdNet' = fdNet /\ fdPc' = "idle"

\* syncFeeds(network, cachedFeeds) up to the skip: the two fetches and the
\* comparison with the cache
FdStart ==
  /\ fdPc = "syncFeeds"
  /\ \E storedOk, activeOk \in BOOLEAN :
       LET network == NetworkSeeds[fdNet]
           activeFeeds == fdManifest[network]
       IN /\ FdFault((IF storedOk THEN 0 ELSE 1) + (IF activeOk THEN 0 ELSE 1))
          /\ fdStored' = fetchFeeds(network, storedOk)
          /\ IF ~activeOk
             THEN /\ FdLeave("threw")
                  /\ UNCHANGED <<fdActive, fdFetched, cachedFeeds, fdI, fdProcessed>>
             ELSE /\ fdActive' = activeFeeds
                  /\ fdFetched' = [fdFetched EXCEPT ![network] = <<activeFeeds>>]
                  /\ IF ManifestUnchanged(cachedFeeds, activeFeeds)
                     THEN /\ FdLeave("skipped")
                          /\ cachedFeeds' = <<cachedFeeds[1]>>
                          /\ UNCHANGED <<fdI, fdProcessed>>
                     ELSE /\ fdPc' = "entry"
                          /\ fdI' = 1
                          /\ fdProcessed' = {}
                          /\ UNCHANGED <<cachedFeeds, fdNet, fdOutcome>>
  /\ UNCHANGED <<fdManifest, fdFeeds, fdAssets, fdTicks, fdPublishes>>

\* one turn of the loop over activeFeeds.feeds
FdEntry ==
  /\ fdPc = "entry"
  /\ fdI <= Len(fdActive.feeds)
  /\ LET network == NetworkSeeds[fdNet]
         activeFeed == fdActive.feeds[fdI]
         feed_id == FeedId(activeFeed)
         existingFeed == FindIndex({i \in 1..Len(fdStored) : fdStored[i].feed_id = feed_id})
         tickers == extractTickersFromFeedName(activeFeed.label)
     IN IF existingFeed # 0 /\ ~isFeedChanged(activeFeed, fdStored[existingFeed])
        THEN /\ fdProcessed' = fdProcessed \cup {feed_id}
             /\ fdI' = fdI + 1
             /\ UNCHANGED <<fdFeeds, fdAssets, fdPc, fdNet, fdOutcome, fdFaults>>
        ELSE IF tickers = <<>>
        THEN /\ FdLeave("threw")
             /\ UNCHANGED <<fdFeeds, fdAssets, fdI, fdProcessed, fdFaults>>
        ELSE \E assetsOk, feedOk \in BOOLEAN, oks \in [1..2 -> BOOLEAN] :
          LET got == getOrCreateAssets(tickers, assetsOk, oks)
              baseAssetId == AssetId(got.result, tickers[1])
              quoteAssetId == AssetId(got.result, tickers[2])
              written == ~got.threw /\ baseAssetId # 0 /\ quoteAssetId # 0
              fields == [type |-> activeFeed.type,
                         name |-> activeFeed.label,
                         status |-> "active",
                         source_type |-> toUpperCase(activeFeed.source),
                         funding_type |-> activeFeed.status,
                         calculation_method |-> activeFeed.calculation,
                         heartbeat_interval |-> activeFeed.interval,
                         deviation |-> activeFeed.deviation,
                         base_asset |-> baseAssetId,
                         quote_asset |-> quoteAssetId]
              created == [id |-> Len(fdFeeds) + 1, network |-> network,
                          feed_id |-> feed_id, version |-> 3] @@ fields
          IN /\ \A k \in 1..2 : k \notin got.called => oks[k]
             /\ ~written => feedOk
             /\ FdFault((IF assetsOk THEN 0 ELSE 1) + (IF feedOk THEN 0 ELSE 1)
                        + Cardinality({k \in got.called : ~oks[k]}))
             /\ fdAssets' = got.assets
             /\ IF ~written
                THEN /\ FdLeave("threw")
                     /\ UNCHANGED <<fdFeeds, fdI, fdProcessed>>
                ELSE /\ fdFeeds' =
                          IF ~feedOk THEN fdFeeds
                          ELSE IF existingFeed = 0 THEN Append(fdFeeds, created)
                          ELSE [fdFeeds EXCEPT ![fdStored[existingFeed].id] = fields @@ @]
                     /\ fdProcessed' = fdProcessed \cup {feed_id}
                     /\ fdI' = fdI + 1
                     /\ UNCHANGED <<fdPc, fdNet, fdOutcome>>
  /\ UNCHANGED <<fdManifest, cachedFeeds, fdFetched, fdStored, fdActive, fdTicks,
                 fdPublishes>>

\* the loop over storedFeeds and the return; onTick keeps the result as
\* cachedFeeds
FdDeactivate ==
  /\ fdPc = "entry"
  /\ fdI > Len(fdActive.feeds)
  /\ LET stale == {i \in 1..Len(fdStored) :
                     /\ fdStored[i].feed_id \notin fdProcessed
                     /\ fdStored[i].status = "active"}
     IN \E failed \in SUBSET stale :
          /\ FdFault(Cardinality(failed))
          /\ fdFeeds' = [i \in 1..Len(fdFeeds) |->
                           IF \E j \in stale \ failed : fdStored[j].id = i
                           THEN [fdFeeds[i] EXCEPT !.status = "inactive"]
                           ELSE fdFeeds[i]]
  /\ FdLeave("completed")
  /\ cachedFeeds' = <<fdActive>>
  /\ UNCHANGED <<fdManifest, fdAssets, fdFetched, fdStored, fdActive, fdI,
                 fdProcessed, fdTicks, fdPublishes>>

fdOthers == <<syncVars, cronVars, archVars, tbVars, parseVars, ixVars, nwVars, pbVars,
  ppVars>>

NextFeeds ==
  \/ FdPublish /\ UNCHANGED fdOthers
  \/ FdTrigger /\ UNCHANGED fdOthers
  \/ FdStart /\ UNCHANGED fdOthers
  \/ FdEntry /\ UNCHANGED fdOthers
  \/ FdDeactivate /\ UNCHANGED fdOthers

(***************************************************************************)
(* SpecBackfill: populateIndex of kupo.ts with slots as numbers, so that   *)
(* the range from the first policy to the latest slot takes several        *)
(* windows of one day.                                                     *)
(***************************************************************************)
MaxAdvances == 1
MaxPbFaults == 1

\* the slots of one day after a slot, by slotAfterTimePeriod
DaySlots == slotAfterTimePeriod(0)

\* network.policies when populateIndex is called: none (populatePolicyIDs
\* returned []), one, or two in either order
PbPolicySets ==
  LET first == [policy_id |-> "P1", starting_slot |-> 10]
      second == [policy_id |-> "P2", starting_slot |-> 10 + DaySlots + 5]
  IN {<<>>, <<first>>, <<first, second>>, <<second, first>>}

\* how far dateToSlot(new Date()) is from slot 10 when populateIndex starts
PbOffsets == {DaySlots + 5, DaySlots + 6, 2 * DaySlots + 5, 2 * DaySlots + 7}

\* how far the clock moves in one step of the environment
PbSteps == {1, DaySlots}

\* what Kupo answers with at slot now: its most recent checkpoint
KupoResponse(now) == [lastCheckpointSlot |-> now, lastBlockHash |-> <<"block", now>>]

\* a fetch or a store call ends well or fails, within the fault budget
PbFault(failed) ==
  /\ failed => pbFaults < MaxPbFaults
  /\ pbFaults' = IF failed THEN pbFaults + 1 ELSE pbFaults

PbIdle ==
  /\ pbPolicies = <<>>
  /\ pbNow = 0
  /\ pbAdvances = 0
  /\ pbPc = "done"
  /\ pbIdx = 0
  /\ pbCur = 0
  /\ pbLatest = 0
  /\ pbEnd = 0
  /\ pbLast = <<>>
  /\ pbResp = <<>>
  /\ pbWindows = <<>>
  /\ pbStored = [last_checkpoint_slot |-> 0, last_block_hash |-> NoHash]
  /\ pbFaults = 0

\* index.ts found the index of the network empty and calls populateIndex
PbInit ==
  /\ pbPolicies \in PbPolicySets
  /\ pbNow \in {10 + d : d \in PbOffsets}
  /\ pbAdvances = 0
  /\ pbPc = "start"
  /\ pbIdx = 0
  /\ pbCur = 0
  /\ pbLatest = 0
  /\ pbEnd = 0
  /\ pbLast = <<>>
  /\ pbResp = <<>>
  /\ pbWindows = <<>>
  /\ pbStored = [last_checkpoint_slot |-> 0, last_block_hash |-> NoHash]
  /\ pbFaults = 0

\* time passes while populateIndex runs
PbAdvance ==
  /\ pbPc \notin {"done", "returned", "threw"}
  /\ pbAdvances < MaxAdvances
  /\ pbAdvances' = pbAdvances + 1
  /\ \E d \in PbSteps : pbNow' = pbNow + d
  /\ UNCHANGED <<pbPolicies, pbPc, pbIdx, pbCur, pbLatest, pbEnd, pbLast, pbResp,
                 pbWindows, pbStored, pbFaults>>

\* syncFeeds(network), then network.policies.sort by starting_slot
PbStart ==
  /\ pbPc = "start"
  /\ \E feedsOk \in BOOLEAN :
       /\ PbFault(~feedsOk)
       /\ IF feedsOk
          THEN /\ pbPolicies' = SortBy(pbPolicies, FALSE)
               /\ pbIdx' = 1
               /\ pbPc' = "policy"
          ELSE /\ pbPc' = "threw"
               /\ UNCHANGED <<pbPolicies, pbIdx>>
  /\ UNCHANGED <<pbNow, pbAdvances, pbCur, pbLatest, pbEnd, pbLast, pbResp,
                 pbWindows, pbStored>>

\* the head of the loop over the policies: latestSlot and currentSlot
PbPolicy ==
  /\ pbPc = "policy"
  /\ IF pbIdx > Len(pbPolicies)
     THEN /\ pbPc' = "update"
          /\ UNCHANGED <<pbLatest, pbCur>>
     ELSE /\ pbLatest' = pbNow
          /\ pbCur' = pbPolicies[1].starting_slot
          /\ pbPc' = "while"
  /\ UNCHANGED <<pbPolicies, pbNow, pbAdvances, pbIdx, pbEnd, pbLast, pbResp,
                 pbWindows, pbStored, pbFaults>>

\* the head of the while loop: the next window is asked for, or the loop ends
PbWhile ==
  /\ pbPc = "while"
  /\ IF pbCur < pbLatest
     THEN LET nextSlot == slotAfterTimePeriod(pbCur)
              queryEndSlot == IF nextSlot < pbLatest THEN nextSlot ELSE pbLatest
          IN /\ pbEnd' = queryEndSlot
             /\ pbWindows' = Append(pbWindows,
                                    [policy |-> pbPolicies[pbIdx],
                                     created_after |-> pbCur,
                                     created_before |-> queryEndSlot,
                                     latestSlot |-> pbLatest])
             /\ pbPc' = "fetch"
             /\ UNCHANGED pbIdx
     ELSE /\ pbIdx' = pbIdx + 1
          /\ pbPc' = "policy"
          /\ UNCHANGED <<pbEnd, pbWindows>>
  /\ UNCHANGED <<pbPolicies, pbNow, pbAdvances, pbCur, pbLatest, pbLast, pbResp,
                 pbStored, pbFaults>>

\* fetchMatchesFromKupo answers and parseAndIndexMatches indexes the window:
\* null makes populateIndex return, a throw leaves it
PbFetch ==
  /\ pbPc = "fetch"
  /\ \E outcome \in {"ok", "null", "throws"} :
       /\ PbFault(outcome # "ok")
       /\ pbResp' = IF outcome = "null" THEN pbResp ELSE <<KupoResponse(pbNow)>>
       /\ IF outcome = "ok"
          THEN /\ pbCur' = pbEnd
               /\ pbLast' = <<KupoResponse(pbNow)>>
               /\ pbPc' = "while"
          ELSE /\ pbPc' = IF outcome = "null" THEN "returned" ELSE "threw"
               /\ UNCHANGED <<pbCur, pbLast>>
  /\ UNCHANGED <<pbPolicies, pbNow, pbAdvances, pbIdx, pbLatest, pbEnd, pbWindows,
                 pbStored>>

\* updateNetwork({id, last_checkpoint_slot, last_block_hash}): a failure is
\* logged; undefined values are not sent
PbUpdate ==
  /\ pbPc = "update"
  /\ \E dbOk \in BOOLEAN :
       /\ PbFault(~dbOk)
       /\ pbStored' = IF dbOk /\ pbLast # <<>>
                      THEN [last_checkpoint_slot |-> pbLast[1].lastCheckpointSlot,
                            last_block_hash |-> pbLast[1].lastBlockHash]
                      ELSE pbStored
  /\ pbPc' = "done"
  /\ UNCHANGED <<pbPolicies, pbNow, pbAdvances, pbIdx, pbCur, pbLatest, pbEnd, pbLast,
                 pbResp, pbWindows>>

pbOthers == <<syncVars, cronVars, archVars, tbVars, parseVars, ixVars, nwVars, fdVars,
  ppVars>>

NextBackfill ==
  \/ PbAdvance /\ UNCHANGED pbOthers
  \/ PbStart /\ UNCHANGED pbOthers
  \/ PbPolicy /\ UNCHANGED pbOthers
  \/ PbWhile /\ UNCHANGED pbOthers
  \/ PbFetch /\ UNCHANGED pbOthers
  \/ PbUpdate /\ UNCHANGED pbOthers

(***************************************************************************)
(* SpecPopulate: populatePolicyIDs of kupo.ts over lists of pointer        *)
(* matches with repeated and ignored policy IDs; the createPolicy calls    *)
(* run side by side under Promise.all.                                     *)
(***************************************************************************)
MaxPointerMatches == 3
MaxPpFaults == 1

PpPolicyIds == {"P1", "P2", "P3"}

\* the pointer matches Kupo gives with order=oldest_first: the k-th one was
\* created at slot k; datum is the policy ID its datum decodes to
PpMatchLists ==
  UNION {[1..n -> PpPolicyIds] : n \in 0..MaxPointerMatches}
PpMatch(ids, k) ==
  [datum |-> ids[k], created_at |-> [slot_no |-> k, header_hash |-> <<"block", k>>]]

\* seed.ignore_policies
PpIgnoreSets == {{}, {"P2"}}

\* the policy object built from a match
PolicyOfMatch(match) ==
  [policy_id |-> match.datum,
   starting_slot |-> match.created_at.slot_no,
   starting_block_hash |-> match.created_at.header_hash]

\* policies.filter((policy, index, self) =>
\*   index === self.findIndex((p) => p.policy_id === policy.policy_id))
uniquePolicies(policies) ==
  LET first(i) == FindIndex({j \in 1..Len(policies) :
                               policies[j].policy_id = policies[i].policy_id})
      kept == {i \in 1..Len(policies) : i = first(i)}
      RECURSIVE take(_)
      take(i) == IF i > Len(policies) THEN <<>>
                 ELSE IF i \in kept THEN <<policies[i]>> \o take(i + 1)
                 ELSE take(i + 1)
  IN take(1)

\* uniquePolicies.filter((policy) => !seed.ignore_policies.includes(policy.policy_id))
filteredPolicies(policies, ignore_policies) ==
  SelectSeq(uniquePolicies(policies), LAMBDA p : p.policy_id \notin ignore_policies)

\* a fetch or a store call ends well or fails, within the fault budget
PpFault(failed) ==
  /\ failed => ppFaults < MaxPpFaults
  /\ ppFaults' = IF failed THEN ppFaults + 1 ELSE ppFaults

PpIdle ==
  /\ ppMatches = <<>>
  /\ ppIgnore = {}
  /\ ppStore = <<>>
  /\ ppFiltered = <<>>
  /\ ppPending = {}
  /\ ppCreated = <<>>
  /\ ppRejected = FALSE
  /\ ppPc = "returned"
  /\ ppResult = <<>>
  /\ ppFaults = 0

\* populateNetwork has created the network record and calls populatePolicyIDs
PpInit ==
  /\ \E ids \in PpMatchLists : ppMatches = [k \in 1..Len(ids) |-> PpMatch(ids, k)]
  /\ ppIgnore \in PpIgnoreSets
  /\ ppStore = <<>>
  /\ ppFiltered = <<>>
  /\ ppPending = {}
  /\ ppCreated = <<>>
  /\ ppRejected = FALSE
  /\ ppPc = "start"
  /\ ppResult = <<>>
  /\ ppFaults = 0

\* the matches and their datums are fetched, the policies built, filtered
\* and handed to createPolicy all at once; a failed fetch goes to the catch
PpFetch ==
  /\ ppPc = "start"
  /\ \E fetchOk \in BOOLEAN :
       /\ PpFault(~fetchOk)
       /\ IF fetchOk
          THEN LET policies == [k \in 1..Len(ppMatches) |-> PolicyOfMatch(ppMatches[k])]
                   filtered == filteredPolicies(policies, ppIgnore)
               IN /\ ppFiltered' = filtered
                  /\ ppPending' = 1..Len(filtered)
                  /\ ppCreated' = [k \in 1..Len(filtered) |-> 0]
                  /\ ppPc' = "creating"
                  /\ UNCHANGED ppResult
          ELSE /\ ppPc' = "returned"
               /\ ppResult' = <<>>
               /\ UNCHANGED <<ppFiltered, ppPending, ppCreated>>
  /\ UNCHANGED <<ppMatches, ppIgnore, ppStore, ppRejected>>

\* one createPolicy call answers: the record is stored, or the call throws
\* and Promise.all rejects; the other calls go on
PpCreated ==
  /\ \E k \in ppPending, ok \in BOOLEAN :
       /\ PpFault(~ok)
       /\ ppPending' = ppPending \ {k}
       /\ IF ok
          THEN /\ ppStore' = Append(ppStore, [id |-> Len(ppStore) + 1] @@ ppFiltered[k])
               /\ ppCreated' = [ppCreated EXCEPT ![k] = Len(ppStore) + 1]
               /\ UNCHANGED ppRejected
          ELSE /\ ppRejected' = TRUE
               /\ UNCHANGED <<ppStore, ppCreated>>
  /\ UNCHANGED <<ppMatches, ppIgnore, ppFiltered, ppPc, ppResult>>

\* Promise.all settles: the created policies in the order of the calls, or
\* [] from the catch as soon as one call has thrown
PpReturn ==
  /\ ppPc = "creating"
  /\ \/ /\ ppRejected
        /\ ppResult' = <<>>
     \/ /\ ~ppRejected
        /\ ppPending = {}
        /\ ppResult' = [k \in 1..Len(ppFiltered) |-> ppStore[ppCreated[k]]]
  /\ ppPc' = "returned"
  /\ UNCHANGED <<ppMatches, ppIgnore, ppStore, ppFiltered, ppPending, ppCreated,
                 ppRejected, ppFaults>>

ppOthers == <<syncVars, cronVars, archVars, tbVars, parseVars, ixVars, nwVars, fdVars,
              pbVars>>

NextPopulate ==
  \/ PpFetch /\ UNCHANGED ppOthers
  \/ PpCreated /\ UNCHANGED ppOthers
  \/ PpReturn /\ UNCHANGED ppOthers

Init == SyncInit /\ CronIdle /\ ArchIdle /\ TbIdle /\ ParseIdle /\ IxIdle /\ NwIdle /\ FdIdle /\ PbIdle
  /\ PpIdle
InitSlots == SyncInit /\ CronIdle /\ ArchIdle /\ SlotsInit /\ ParseIdle /\ IxIdle /\ NwIdle /\ FdIdle /\ PbIdle
  /\ PpIdle
InitParse == SyncInit /\ CronIdle /\ ArchIdle /\ TbIdle /\ ParseInit /\ IxIdle /\ NwIdle /\ FdIdle /\ PbIdle
  /\ PpIdle
InitIndexer == SyncInit /\ CronIdle /\ ArchIdle /\ TbIdle /\ ParseIdle /\ IxInit /\ NwIdle /\ FdIdle /\ PbIdle
  /\ PpIdle
InitNetworks == SyncInit /\ CronIdle /\ ArchIdle /\ TbIdle /\ ParseIdle /\ IxIdle /\ NwInit /\ FdIdle /\ PbIdle
  /\ PpIdle
InitFeeds == SyncInit /\ CronIdle /\ ArchIdle /\ TbIdle /\ ParseIdle /\ IxIdle /\ NwIdle /\ FdInit /\ PbIdle
  /\ PpIdle
InitBackfill == SyncInit /\ CronIdle /\ ArchIdle /\ TbIdle /\ ParseIdle /\ IxIdle /\ NwIdle /\ FdIdle /\ PbInit
  /\ PpIdle
InitPopulate == SyncInit /\ CronIdle /\ ArchIdle /\ TbIdle /\ ParseIdle /\ IxIdle /\ NwIdle /\ FdIdle /\ PbIdle
  /\ PpInit

Next ==
  \/ Env /\ UNCHANGED others
  \/ Boot /\ UNCHANGED others
  \/ Restart /\ UNCHANGED others
  \/ BfStart /\ UNCHANGED others
  \/ BfLoop /\ UNCHANGED others
  \/ BfCommit /\ UNCHANGED others
  \/ TickSyncFeeds /\ UNCHANGED others
  \/ TickPolicy /\ UNCHANGED others
  \/ RotLastIndexed /\ UNCHANGED others
  \/ SyncFetch /\ UNCHANGED others
  \/ SyncProcessTx /\ UNCHANGED others
  \/ SyncCommit /\ UNCHANGED others
  \/ TickEnd /\ UNCHANGED others

\* the process is first started against a chain three blocks long that
\* carries one fact statement in slot 2
ReorgInit ==
  /\ kChain = <<0, 0, 0>>
  /\ kFork = 0
  /\ kEvents = 0
  /\ kMatches = {[urn |-> "u1", slot |-> 2, fork |-> 0, pol |-> "P1"]}
  /\ kPointer = <<[policy_id |-> "P1", starting_slot |-> 1]>>
  /\ sExists = FALSE
  /\ sCkpt = 0
  /\ sHash = NoHash
  /\ sPolicies = <<>>
  /\ sFacts = <<>>
  /\ cCkpt = 0
  /\ cHash = NoHash
  /\ cPolicies = <<>>
  /\ pc = "boot"
  /\ call = "none"
  /\ req = NoReq
  /\ resp = NoResp
  /\ pending = <<>>
  /\ rolledBack = FALSE
  /\ latestPolicy = <<>>
  /\ bf = NoBf
  /\ err = "none"
  /\ successfulCount = 0
  /\ skippedCount = 0
  /\ fetched = "none"
  /\ faults = 0

InitReorg == ReorgInit /\ CronIdle /\ ArchIdle /\ TbIdle /\ ParseIdle /\ IxIdle /\ NwIdle /\ FdIdle /\ PbIdle
  /\ PpIdle

Spec == Init /\ [][Next]_vars
SpecReorg == InitReorg /\ [][Next]_vars
SpecCron == Init /\ [][NextCron]_vars
SpecArchive == Init /\ [][NextArchive]_vars
SpecSlots == InitSlots /\ [][NextSlots]_vars
SpecParse == InitParse /\ [][NextParse]_vars
SpecIndexer == InitIndexer /\ [][NextIndexer]_vars
SpecNetworks == InitNetworks /\ [][NextNetworks]_vars
SpecFeeds == InitFeeds /\ [][NextFeeds]_vars
SpecBackfill == InitBackfill /\ [][NextBackfill]_vars
SpecPopulate == InitPopulate /\ [][NextPopulate]_vars

(***************************************************************************)
(* Insert, failure and commit properties of the sync.                      *)
(***************************************************************************)
\* no two stored facts of the network share a fact_urn
NoDuplicateFacts ==
  \A i, j \in 1..Len(sFacts) : sFacts[i].fact_urn = sFacts[j].fact_urn => i = j

\* C4: replaying a batch inserts nothing: the store rejects a fact whose
\* fact_urn it already holds for the network, the rejection is counted as
\* skipped and nothing else, the sync goes on without an error, and no two
\* stored facts share a fact_urn.
C4_ReplayInsertsNothing ==
  /\ []NoDuplicateFacts
  /\ [][(/\ pc = "process"
         /\ pending # <<>>
         /\ DbNotUnique(sFacts, [fact_urn |-> Head(pending).urn])
         /\ faults' = faults)
          => /\ sFacts' = sFacts
             /\ skippedCount' = 1
             /\ successfulCount' = 0
             /\ err' = "none"
             /\ pc' = "process"
             /\ pending' = Tail(pending)]_vars

\* a replayed transaction has just been skipped
C4_Witness ==
  /\ pc = "process"
  /\ skippedCount = 1
  /\ successfulCount = 0
  /\ sFacts # <<>>
  /\ err = "none"

FetchFailures == {"threw", "noHeaders", "badBody"}
FetchThrowSites == {"metadata", "datum"}

\* C5: a sync whose matches fetch failed (fetch threw, a 200 without etag or
\* x-most-recent-checkpoint, a body failing the schema) or in which a metadata
\* or datum fetch failed leaves the stored last_checkpoint_slot and
\* last_block_hash as they were.
C5_FailedSyncKeepsCheckpoint ==
  [][(\/ fetched \in FetchFailures
      \/ fetched' \in FetchFailures
      \/ err \in FetchThrowSites
      \/ err' \in FetchThrowSites)
       => (sCkpt' = sCkpt /\ sHash' = sHash)]_vars

\* a tick ended on a failed metadata or datum fetch with the tip beyond the
\* stored checkpoint
C5_Witness ==
  /\ pc = "done"
  /\ err \in FetchThrowSites
  /\ fetched = "ok"
  /\ sCkpt # 0
  /\ sCkpt < Tip

\* C6: the checkpoint (last_checkpoint_slot and last_block_hash, together) is
\* written by a sync only when the inserts of every transaction of its batch
\* have settled and none of them threw; the backfill writes it once, after its
\* last window.
C6_CheckpointAfterBatch ==
  [][<<sCkpt, sHash>>' # <<sCkpt, sHash>> =>
       \/ pc = "bfCommit"
       \/ /\ pc = "process"
          /\ resp.txs - Len(pending) = resp.txs
          /\ err = "none"
          /\ sCkpt' = resp.ckpt
          /\ sHash' = resp.hash]_vars

\* a sync is about to write the checkpoint after a batch of at least one
\* transaction
C6_Witness ==
  /\ pc = "process"
  /\ call # "backfill"
  /\ resp.txs >= 1
  /\ pending = <<>>
  /\ resp.ckpt # sCkpt

(***************************************************************************)
(* Checkpoint and rollback properties of the sync.                         *)
(***************************************************************************)
FactsBeyond(facts, slot) == {i \in 1..Len(facts) : facts[i].slot > slot}

\* C1: the stored last_checkpoint_slot never decreases from one write to the
\* next, except in a sync that detected a rollback, and then no stored fact has
\* a slot beyond the new checkpoint when the checkpoint is written.
C1_CheckpointMonotone ==
  [][sCkpt' < sCkpt => (rolledBack /\ FactsBeyond(sFacts', sCkpt') = {})]_vars

\* C2: when a matches request is answered 200 with an x-most-recent-checkpoint
\* below the stored checkpoint, every stored fact with a slot beyond the
\* reported checkpoint is gone before the first insert of the batch, and after
\* the batch the stored checkpoint is the reported one.  Stated for the runs
\* in which no call to Kupo, to the store or to the manifest has failed.
C2_RollbackDeletesThenCommits ==
  [][faults' = 0 =>
       /\ (pc = "fetch" /\ fetched' \in {"ok", "badBody"} /\ pc' # "fetch" /\ Tip < sCkpt)
            => FactsBeyond(sFacts', Tip) = {}
       /\ (pc = "process" /\ call # "backfill" /\ pending = <<>> /\ resp.ckpt < sCkpt)
            => sCkpt' = resp.ckpt]_vars

\* C3: a matches request answered 304 ends the sync at once: nothing is
\* inserted or deleted, the checkpoint and block hash stay as they are in the
\* store and in the cache, and no error is raised.
C3_NotModifiedIsNoOp ==
  [][(pc = "fetch" /\ pc' # "fetch" /\ KupoStatus(req.lastHash) = 304 /\ faults' = faults)
       => /\ UNCHANGED storeVars
          /\ cCkpt' = cCkpt
          /\ cHash' = cHash
          /\ err' = "none"
          /\ fetched' = "notModified"
          /\ pc' \in {"done", "rotLast2"}]_vars

\* a tick ended on a 304 while the store holds facts and a checkpoint
C3_Witness ==
  /\ pc = "done"
  /\ fetched = "notModified"
  /\ err = "none"
  /\ sFacts # <<>>
  /\ sCkpt = Tip

(***************************************************************************)
(* Policy list and rotation properties.                                    *)
(***************************************************************************)
StrictlyIncreasing(policies) ==
  \A i \in 1..(Len(policies) - 1) :
    policies[i].starting_slot < policies[i + 1].starting_slot

\* C7: wherever the tick reads the network (seeded or loaded at startup and
\* waiting for a tick, tracking the policy, fetching matches, after a rotation
\* pushed a policy), its policies are strictly increasing by starting_slot, so
\* that the last entry, which the matches fetch uses when no policy is named,
\* is the newest one.  Stated for the runs in which no call has failed.
C7_PoliciesStrictlyIncreasing ==
  (faults = 0 /\ pc \in {"idle", "policy", "rotLast2", "fetch"})
    => StrictlyIncreasing(cPolicies)

\* the tick is in its rotation branch and has not yet issued the fetch under
\* the new policy
RotationBeforeSecondFetch ==
  \/ pc = "rotLast1" /\ sFacts # <<>>
  \/ call = "rot1" /\ pc \in {"fetch", "process"}
  \/ pc = "rotLast2"

IsLastIndexedSlot(slot) ==
  /\ \E i \in 1..Len(sFacts) : sFacts[i].slot = slot
  /\ \A i \in 1..Len(sFacts) : sFacts[i].slot <= slot

\* the requests of the rotation branch and their order
RotationFetchShape ==
  /\ (pc = "rotLast1" /\ pc' = "fetch")
       => /\ call' = "rot1"
          /\ IsLastIndexedSlot(req'.after)
          /\ req'.before = latestPolicy[1].starting_slot
          /\ req'.pol = <<>>
          /\ cPolicies'[Len(cPolicies')].policy_id # latestPolicy[1].policy_id
  /\ (pc = "rotLast2" /\ pc' = "fetch")
       => /\ call' = "rot2"
          /\ IsLastIndexedSlot(req'.after)
          /\ req'.before = 0
          /\ req'.pol = <<>>
          /\ cPolicies'[Len(cPolicies')].policy_id = sPolicies[Len(sPolicies)].policy_id
  /\ (pc # "rotLast2" /\ pc' = "rotLast2")
       => (call = "rot1" /\ pc \in {"fetch", "process"})
  /\ (call = "rot2" => call' \in {"rot2", "none"})

C9_TicksDoNotOverlap == Cardinality(RunningTicks) <= 1

\* C10: whatever the number of facts of the batch, at most 5 of them are
\* being processed at any time (between the start of processFact for a fact
\* and its return).
C10_AtMostFiveWorkers == Cardinality(WorkingFacts) <= Concurrency

\* five facts are being processed while more wait in the queue
C10_Witness ==
  /\ Cardinality(WorkingFacts) = Concurrency
  /\ aQueue # <<>>
  /\ aFacts > Concurrency

(***************************************************************************)
(* C17: within one invocation of onTick the networks are taken one after   *)
(* another, and a throw in any step of one network's try block does not    *)
(* keep the networks after it from being processed: every step of an       *)
(* invocation either goes on inside the same network or begins the next     *)
(* network at its first step, and the invocation ends only after the last  *)
(* network.                                                                *)
(***************************************************************************)
C17_FailureDoesNotStopTick ==
  [][\A i \in 1..Len(tickPc) :
       tickPc'[i] # tickPc[i] =>
         \/ /\ tickPc'[i].net = tickPc[i].net
            /\ tickPc'[i].step = tickPc[i].step + 1
            /\ tickPc'[i].caught = tickPc[i].caught
         \/ /\ tickPc'[i].net = tickPc[i].net + 1
            /\ tickPc'[i].step = 1
            /\ tickPc[i].net <= Len(NetworkSeeds)]_vars

\* the first network's processing threw and the invocation is inside the
\* last network's fact sync
C17_Witness ==
  \E i \in 1..Len(tickPc) :
    /\ 1 \in tickPc[i].caught
    /\ tickPc[i].net = Len(NetworkSeeds)
    /\ tickPc[i].step = Len(TickSteps)

(***************************************************************************)
(* C20: for a network with slot_length > 0 and a slot s >= zero_slot,      *)
(* dateToSlot(slotToDate(s, n), n) = s.                                     *)
(***************************************************************************)
C20_SlotRoundTrip ==
  (tbPc = "back" /\ tbNet.slot_length > 0 /\ tbSlot >= tbNet.zero_slot) =>
    tbBack = tbSlot

\* a slot after the network's first one, of a network with a zero slot, a
\* zero time and slots longer than a millisecond, has gone there and back
C20_Witness ==
  /\ tbPc = "back"
  /\ tbNet.zero_slot > 0
  /\ tbNet.zero_time > 0
  /\ tbNet.slot_length > 1
  /\ tbSlot > tbNet.zero_slot
  /\ tbDate.time > tbNet.zero_time

(***************************************************************************)
(* Properties of parseAndIndexMatches.                                     *)
(***************************************************************************)
SlotsDiffer(matches) ==
  \E i, j \in 1..Len(matches) : matches[i].slot_no # matches[j].slot_no
NoDatumHash(matches) ==
  \E i \in 1..Len(matches) : matches[i].datum_hash = Null
FactsOfTx(txId) == {i \in 1..Len(pFacts) : pFacts[i].transaction_id = txId}

(***************************************************************************)
(* C16: when the matched outputs of the transaction at hand do not share    *)
(* one created_at.slot_no, or one of them has no datum hash, the step       *)
(* taken throws out of the sync: no fact is inserted by it, the stored      *)
(* checkpoint stays, and nothing is inserted or committed after the throw. *)
(***************************************************************************)
C16_BadTxFailsSync ==
  [][/\ (/\ pPc = "parse"
         /\ pGroups # <<>>
         /\ SlotsDiffer(Head(pGroups).matches) \/ NoDatumHash(Head(pGroups).matches))
        => /\ pPc' = "threw"
           /\ pFacts' = pFacts
           /\ FactsOfTx(Head(pGroups).txId) = {}
           /\ pCkpt' = pCkpt
     /\ pPc = "threw" => (pPc' = "threw" /\ pFacts' = pFacts /\ pCkpt' = pCkpt)]_vars

\* the second transaction of a response had outputs of two slots: the first
\* one's facts are indexed, none of the second, and the checkpoint is the old
C16_Witness ==
  /\ pPc = "threw"
  /\ pErr = "slotMismatch"
  /\ pFacts # <<>>
  /\ Len(Head(pGroups).matches) = 2
  /\ FactsOfTx(Head(pGroups).txId) = {}
  /\ pCkpt = 0

(***************************************************************************)
(* C18: every inserted fact has publication_date = slotToDate(slot,        *)
(* network) and statement_hash = BLAKE2b-256 of its own datum_hash         *)
(* followed by its own fact_urn.                                           *)
(***************************************************************************)
C18_DerivedFieldsOfRecord ==
  \A i \in 1..Len(pFacts) :
    /\ pFacts[i].publication_date = slotToDate(pFacts[i].slot, ParseNetwork)
    /\ pFacts[i].statement_hash = blake2b(<<pFacts[i].datum_hash, pFacts[i].fact_urn>>)

(***************************************************************************)
(* C19: the fact of the output with output_index i has the fact_urn and    *)
(* the storage_urn of list element i + 1 when the transaction's list       *)
(* begins with the ToS element, and of list element i when it does not.    *)
(***************************************************************************)
ToSOffset(txId) == IF OrcfaxToS(At(KupoMetadata(txId), 0)) THEN 1 ELSE 0
PairedWith(fact, i) ==
  LET element == At(KupoMetadata(fact.transaction_id), i)
      src == At(element.map, 1).v
  IN  /\ fact.fact_urn = At(element.map, 0).v
      /\ fact.storage_urn = IF src \in ArweaveFailureMessages THEN "" ELSE src

C19_PairedByOutputIndex ==
  \A n \in 1..Len(pFacts) :
    PairedWith(pFacts[n], pFacts[n].output_index + ToSOffset(pFacts[n].transaction_id))

\* the place of the fact's output among the matched outputs of its
\* transaction in ascending output_index, from 0
PlaceInTx(fact) ==
  Cardinality({k \in 1..Len(pResp) :
                 /\ pResp[k].transaction_id = fact.transaction_id
                 /\ pResp[k].output_index < fact.output_index})

\* C19, amended: the fact of the i-th matched output of the transaction in
\* ascending output_index (i from 0) has the fact_urn and the storage_urn
\* of list element i + 1 with the ToS element, of list element i without.
C19_PairedByPlace ==
  \A n \in 1..Len(pFacts) :
    PairedWith(pFacts[n], PlaceInTx(pFacts[n]) + ToSOffset(pFacts[n].transaction_id))

\* a transaction with the ToS element and the outputs 0 and 1: both facts
\* are indexed
C19_Witness ==
  \E a, b \in 1..Len(pFacts) :
    /\ pFacts[a].transaction_id = pFacts[b].transaction_id
    /\ pMeta[pFacts[a].transaction_id]
    /\ pFacts[a].output_index = 0
    /\ pFacts[b].output_index = 1

(***************************************************************************)
(* Properties of the archive indexer.                                      *)
(***************************************************************************)
\* the run's processing of the fact's archive failed at a step: the fetch,
\* the validation file or the message file
ArchiveFailed(f) == ixW[f].failed
IsRunStart == ixRun' = ixRun + 1

(***************************************************************************)
(* C11: over the runs of the archive indexer, a fact with                  *)
(* is_archive_indexed = true is not selected and not patched again, and a  *)
(* fact whose archive processing failed stays with is_archive_indexed =    *)
(* false and a storage_urn, and the next run selects it again.             *)
(***************************************************************************)
C11_ArchiveReentry ==
  [][\A f \in FactIds :
       /\ ixFacts[f].is_archive_indexed =>
            (ixFacts'[f] = ixFacts[f] /\ ixW'[f].pc # "files")
       /\ ArchiveFailed(f)' =>
            (~ixFacts'[f].is_archive_indexed /\ StorageUrn(f) # "")
       /\ (ArchiveFailed(f) /\ IsRunStart) => ixW'[f].pc = "files"]_vars

(***************************************************************************)
(* C12: when the processing of a fact's archive fails at a step, the       *)
(* fact's record stays as it was, the other facts of the batch are         *)
(* processed to their end, and the run completes.                          *)
(***************************************************************************)
C12_FailureIsolated ==
  /\ \A f \in FactIds : ArchiveFailed(f) => ixFacts[f] = Unarchived
  /\ ixOutcome # "rejected"
  /\ ixOutcome = "completed" => \A f \in FactIds : ixW[f].pc \in {"none", "done"}

(***************************************************************************)
(* C13: when a message names a source of which the cache holds a source of *)
(* the same name, type and sender with another recipient, and none with    *)
(* the new recipient, then, no store call having failed and no other      *)
(* worker having created the recipient meanwhile, the matching prior       *)
(* sources are inactive and one new source has been created, with the new  *)
(* recipient, active, and with a prior source's website.                   *)
(***************************************************************************)
C13_SourceRotation ==
  [][\A f \in Archived :
       (/\ ixW[f].pc = "parse"
        /\ ixW[f].srcPc = "creating"
        /\ ixW[f].prior # 0
        /\ ixW'[f].srcPc = "done"
        /\ \A i \in 1..Len(ixSources) : ixSources[i].recipient # ixArchive[f].recipient
        /\ ixFaults' = 0)
       => /\ \A id \in ixW[f].matching : ixSources'[id].status = "inactive"
          /\ Len(ixSources') = Len(ixSources) + 1
          /\ ixSources'[Len(ixSources')].recipient = ixArchive[f].recipient
          /\ ixSources'[Len(ixSources')].status = "active"
          /\ \E id \in ixW[f].matching :
               ixSources'[Len(ixSources')].website = ixSources[id].website]_vars

(***************************************************************************)
(* C14: whatever the interleaving of the workers, the nodes collection     *)
(* never holds two records of one node_urn, and every indexed fact whose   *)
(* validation file names a node refers to the record of that node.         *)
(***************************************************************************)
C14_OneNodePerUrn ==
  ixFaults = 0 =>
    /\ \A i, j \in 1..Len(ixNodes) :
         ixNodes[i].node_urn = ixNodes[j].node_urn => i = j
    /\ \A f \in Archived :
         ixFacts[f].is_archive_indexed =>
           /\ Len(ixFacts[f].participating_nodes) = 1
           /\ ixNodes[ixFacts[f].participating_nodes[1]].node_urn = ixArchive[f].node_urn

(***************************************************************************)
(* C15: whatever the interleaving of the workers, the sources collection   *)
(* never holds two records of one recipient, and every indexed fact whose  *)
(* message names a recipient refers to the record of that recipient.       *)
(***************************************************************************)
C15_OneSourcePerRecipient ==
  ixFaults = 0 =>
    /\ \A i, j \in 1..Len(ixSources) :
         ixSources[i].recipient = ixSources[j].recipient => i = j
    /\ \A f \in Archived :
         (ixFacts[f].is_archive_indexed /\ ixArchive[f].kind = "ok") =>
           /\ Len(ixFacts[f].sources) = 1
           /\ ixSources[ixFacts[f].sources[1]].recipient = ixArchive[f].recipient

(***************************************************************************)
(* Completeness of a committed batch.                                      *)
(***************************************************************************)
\* the matches the sync in progress was answered with: the chain index does
\* not change between the answer and the commit
BatchOfSync ==
  KupoMatches(cPolicies[Len(cPolicies)].policy_id, req.after, req.before)

HasFact(facts, urn) == \E i \in 1..Len(facts) : facts[i].fact_urn = urn

\* C21: whenever a sync advances the stored checkpoint after processing a
\* batch, every match of that batch has a stored fact with its fact_urn, newly
\* inserted or already present: a fact whose insert failed for another reason
\* than the uniqueness conflict is not skipped over by the checkpoint.
C21_CommittedBatchIsStored ==
  [][(/\ pc = "process"
      /\ call # "backfill"
      /\ pending = <<>>
      /\ sCkpt' > sCkpt)
       => \A i \in 1..Len(BatchOfSync) : HasFact(sFacts', BatchOfSync[i].urn)]_vars

(***************************************************************************)
(* The store after a rollback repair.                                      *)
(***************************************************************************)
\* the chain index reports a match for the stored fact on its current chain
OnCurrentChain(fact) ==
  \E m \in kMatches :
    /\ m.urn = fact.fact_urn
    /\ m.slot = fact.slot
    /\ <<m.slot, m.fork>> = fact.block_hash

\* C22: when the sync that repaired a rollback has processed its batch and
\* commits, every stored fact corresponds to a match the chain index reports
\* on its current chain: no fact of the abandoned fork remains, the facts with
\* a slot at or below the reported checkpoint included.  Stated for the runs
\* in which no call to Kupo, to the store or to the manifest has failed.
C22_NoFactOfAbandonedFork ==
  [][(/\ pc = "process"
      /\ call # "backfill"
      /\ pending = <<>>
      /\ rolledBack
      /\ faults' = 0)
       => \A i \in 1..Len(sFacts') : OnCurrentChain(sFacts'[i])]_vars

(***************************************************************************)
(* The Policy Tracker.                                                     *)
(***************************************************************************)
\* the tracker returns: the tick leaves getOrCreateLatestPolicy without a
\* failed call
TrackerReturns == pc = "policy" /\ pc' # "policy" /\ faults' = faults /\ cPolicies # <<>>

PointerMatch == kPointer[Len(kPointer)]
CurrentPolicy == cPolicies[Len(cPolicies)]
KnownPolicyIds == {cPolicies[i].policy_id : i \in 1..Len(cPolicies)}

\* the current policy is returned and nothing is created: the tick takes the
\* plain sync
ReturnsCurrent ==
  /\ sPolicies' = sPolicies
  /\ latestPolicy' = <<>>
  /\ call' = "sync"
  /\ pc' = "fetch"

\* a record with the match's policy_id and slot is appended and returned
AppendsPointerMatch ==
  /\ sPolicies' = Append(sPolicies, PointerMatch)
  /\ Len(latestPolicy') = 1
  /\ latestPolicy'[1].id = Len(sPolicies')
  /\ latestPolicy'[1].policy_id = PointerMatch.policy_id
  /\ latestPolicy'[1].starting_slot = PointerMatch.starting_slot

\* C23 as claimed: on a tick, if the policy ID of the most recent pointer
\* match equals the current policy's policy_id, no Policy record is created
\* and the current policy is returned; if it differs from the current
\* policy's policy_id, a new Policy record carrying that policy_id and the
\* match's slot is appended.
C23_CreatesWhenNotCurrent ==
  [][TrackerReturns =>
       IF PointerMatch.policy_id = CurrentPolicy.policy_id
       THEN ReturnsCurrent
       ELSE AppendsPointerMatch]_vars

\* C23, amended: no Policy record is created and the current policy is
\* returned if the policy ID of the pointer match equals the policy_id of any
\* policy of the cached network, the current one or an older one; a new Policy
\* record carrying that policy_id and the match's slot is appended if it
\* equals none of them.
C23_CreatesWhenUnknown ==
  [][TrackerReturns =>
       IF PointerMatch.policy_id \in KnownPolicyIds
       THEN ReturnsCurrent
       ELSE AppendsPointerMatch]_vars

\* the tracker has just returned the current policy for a pointer match that
\* names an older policy of the network
C23_Witness ==
  /\ pc = "fetch"
  /\ call = "sync"
  /\ Len(cPolicies) > 1
  /\ PointerMatch.policy_id # CurrentPolicy.policy_id
  /\ PointerMatch.policy_id \in KnownPolicyIds
  /\ req.after = cCkpt
  /\ req.pol = <<>>

\* C24: the store never holds two Policy records of the network with the same
\* policy_id, whatever the ticks before: a tick that failed after the tracker
\* created a policy and the ticks that retry after it included.
C24_NoDuplicatePolicyRecords ==
  \A i, j \in 1..Len(sPolicies) :
    sPolicies[i].policy_id = sPolicies[j].policy_id => i = j

\* C25: in a rotation tick, if the bounded fetch under the old policy fails
\* (fetch threw, headers missing, body failing the schema: no response), the
\* tick does not make the new policy the current policy of the network, so
\* that a later tick fetches the old policy's range again.
C25_FailedOldFetchKeepsOldPolicy ==
  [][(/\ pc = "fetch"
      /\ call = "rot1"
      /\ fetched' \in FetchFailures)
       => /\ cPolicies' = cPolicies
          /\ cPolicies'[Len(cPolicies')].policy_id # latestPolicy[1].policy_id]_vars

(***************************************************************************)
(* The cached network and the stored network record.                       *)
(***************************************************************************)
\* C26: at the start of every tick the cached network's last_checkpoint_slot
\* and last_block_hash equal those of the stored network record: the first
\* tick after a backfill and the ticks after a failed store update included.
C26_CacheEqualsStoreAtTick ==
  pc = "idle" => (cCkpt = sCkpt /\ cHash = sHash)

(***************************************************************************)
(* The policy reference of a stored fact.                                  *)
(***************************************************************************)
\* the step inserts the fact of the transaction at the head of the batch
InsertsFact == pc = "process" /\ pending # <<>> /\ Len(sFacts') = Len(sFacts) + 1

\* C27: every stored fact's policy field references the policy under which
\* its match was fetched: in a backfill over several policies and in the
\* old-policy fetch of a rotation tick, a fact fetched under policy P is stored
\* with policy = P, not with the network's latest policy.
C27_FactReferencesFetchPolicy ==
  [][InsertsFact =>
       sPolicies[sFacts'[Len(sFacts')].policy].policy_id = Head(pending).pol]_vars

(***************************************************************************)
(* The order of the calls of a tick.                                       *)
(***************************************************************************)
StepOf(t) == TickSteps[t.step]

\* the call invocation i is in returns and the try block goes on
Returns(i) == tickPc'[i] # tickPc[i] /\ tickPc'[i].caught = tickPc[i].caught

\* Feed Sync and the Policy Tracker run before the Incremental Syncer
FeedsAndPolicyBeforeSync ==
  \A i \in 1..Len(tickPc) :
    tickPc'[i] # tickPc[i] =>
      /\ (TickRunning(i) /\ StepOf(tickPc[i]) # "syncFeeds") =>
           \E n \in 1..(tickPc[i].step - 1) : TickSteps[n] = "syncFeeds"
      /\ StepOf(tickPc'[i]) = "syncFactStatements" =>
           /\ tickPc'[i].net = tickPc[i].net
           /\ StepOf(tickPc[i]) = "getOrCreateLatestPolicy"
      /\ StepOf(tickPc'[i]) = "getOrCreateLatestPolicy" =>
           /\ tickPc'[i].net = tickPc[i].net
           /\ StepOf(tickPc[i]) = "syncFeeds"

\* the Archive Indexer runs after the Incremental Syncer of the network
ArchivesAfterSync ==
  \A i \in 1..Len(tickPc) :
    (TickRunning(i) /\ StepOf(tickPc[i]) = "syncFactStatements" /\ Returns(i)) =>
      /\ tickPc'[i].net = tickPc[i].net
      /\ StepOf(tickPc'[i]) = "indexArchives"

\* C28: within a tick, for each network, Feed Sync and the Policy Tracker run
\* before the Incremental Syncer, and the Archive Indexer runs after the
\* Incremental Syncer of that network.
C28_TickOrder == [][FeedsAndPolicyBeforeSync /\ ArchivesAfterSync]_vars

(***************************************************************************)
(* Enabled networks.                                                       *)
(***************************************************************************)
\* C29: the scheduler and the startup backfill run only for networks with
\* is_enabled = true: a network whose stored record has is_enabled = false is
\* never passed to Feed Sync, the Policy Tracker, the Incremental Syncer or the
\* Backfill Populator.
C29_OnlyEnabledNetworks ==
  \A p \in nwPassed :
    p.component \in NwComponents => nwStored[p.network.id].is_enabled

(***************************************************************************)
(* The archive fields of a patched fact.                                   *)
(***************************************************************************)
\* the fact's participating_nodes are exactly the one node of the archive's
\* validation file
HasItsNode(f) ==
  /\ Len(ixFacts[f].participating_nodes) = 1
  /\ ixNodes[ixFacts[f].participating_nodes[1]].node_urn = ixArchive[f].node_urn

\* the fact's sources contain the source of the archive's message entry
HasItsSources(f) ==
  \E k \in 1..Len(ixFacts[f].sources) :
    ixSources[ixFacts[f].sources[k]].recipient = ixArchive[f].recipient

\* C30: every fact the Archive Indexer has patched to is_archive_indexed =
\* true has participating_nodes equal to exactly the one node whose node_urn
\* is the validation file's isBasedOn.identifier, and sources containing the
\* id of the source of every message entry of its archive (of every entry
\* that parses, for an archive with a message file that does not).
C30_PatchedFactHasNodeAndSources ==
  \A f \in Archived :
    ixFacts[f].is_archive_indexed =>
      /\ HasItsNode(f)
      /\ ixArchive[f].kind = "ok" => HasItsSources(f)

(***************************************************************************)
(* Active sources of a sender.                                             *)
(***************************************************************************)
\* the active sources of the sender (every source of the model has the
\* name, type and sender of kraken)
ActiveSources == {i \in 1..Len(ixSources) : ixSources[i].status = "active"}

\* C31: after any sequence of source rotations processed by the Archive
\* Indexer, for each (network, name, type, sender) at most one source has
\* status active: the one with the most recently introduced recipient.  Stated
\* for the end of a run in which no fetch and no store call has failed.
C31_OneActiveSourcePerSender ==
  (ixOutcome = "completed" /\ ixFaults = 0) =>
    /\ Cardinality(ActiveSources) <= 1
    /\ \A i \in ActiveSources : i = Len(ixSources)

(***************************************************************************)
(* Claims about the feed catalogue (SpecFeeds).                            *)
(***************************************************************************)
\* the network whose feeds syncFeeds is reconciling
FdNetwork == NetworkSeeds[fdNet]
\* a step in which syncFeeds fetched the manifest and compared it with the
\* cache (the fetch did not throw)
FdCompares ==
  /\ fdPc = "syncFeeds"
  /\ fdPc' = "entry" \/ (fdOutcome' # fdOutcome /\ fdOutcome'.result # "threw")

\* C32: when the manifest just fetched is structurally equal to the cached
\* manifest, syncFeeds creates and updates no feed and no asset, and returns
\* the cached manifest (which onTick keeps as its cache).
C32_EqualManifestSkips ==
  [][(FdCompares /\ cachedFeeds # <<>> /\ cachedFeeds[1] = fdManifest[FdNetwork])
       => /\ fdOutcome' = [network |-> FdNetwork, result |-> "skipped"]
          /\ fdPc' # "entry"
          /\ fdFeeds' = fdFeeds
          /\ fdAssets' = fdAssets
          /\ cachedFeeds' = cachedFeeds]_vars
C32_Witness ==
  /\ fdOutcome.result = "skipped"
  /\ cachedFeeds = <<fdManifest[fdOutcome.network]>>

\* C33: syncFeeds skips the reconciliation of a network only when the
\* manifest it fetched equals the manifest it fetched last for that same
\* network; a manifest cached while another network was processed never
\* makes it skip.
C33_SkipOnlyOnOwnManifest ==
  [][(/\ FdCompares
      /\ fdOutcome' = [network |-> FdNetwork, result |-> "skipped"])
       => fdFetched[FdNetwork] = <<fdManifest[FdNetwork]>>]_vars

\* the stored feed holds the six fields as the manifest entry gives them
\* (source_type is the entry's source in upper case)
SameSixFields(activeFeed, feed) ==
  /\ feed.name = activeFeed.label
  /\ feed.source_type = toUpperCase(activeFeed.source)
  /\ feed.funding_type = activeFeed.status
  /\ feed.calculation_method = activeFeed.calculation
  /\ feed.heartbeat_interval = activeFeed.interval
  /\ feed.deviation = activeFeed.deviation
\* the step in which a syncFeeds that did not skip returns
FdCompletes ==
  fdPc = "entry" /\ fdOutcome' = [network |-> FdNetwork, result |-> "completed"]
\* a step of the loop over the entries of the manifest
FdInEntryLoop == fdPc = "entry" /\ fdI <= Len(fdActive.feeds)

\* what C34 asks of one step of syncFeeds
C34_Step ==
  /\ FdCompletes =>
        \A k \in 1..Len(fdActive.feeds) :
          \E i \in 1..Len(fdFeeds') :
            /\ fdFeeds'[i].network = FdNetwork
            /\ fdFeeds'[i].feed_id = FeedId(fdActive.feeds[k])
            /\ SameSixFields(fdActive.feeds[k], fdFeeds'[i])
  /\ Len(fdFeeds') > Len(fdFeeds) =>
        ~\E i \in 1..Len(fdFeeds) :
           /\ fdFeeds[i].network = FdNetwork
           /\ fdFeeds[i].feed_id = fdFeeds'[Len(fdFeeds')].feed_id
  /\ FdInEntryLoop =>
        \A i \in 1..Len(fdFeeds) :
          fdFeeds'[i] # fdFeeds[i] => ~SameSixFields(fdActive.feeds[fdI], fdFeeds[i])

\* C34: when a syncFeeds that did not skip returns without an error, every
\* entry of the manifest has a stored feed of the network with feed_id
\* type/label/3 and the entry's six fields; a feed is created only when the
\* network has no stored feed of that feed_id; a stored feed is updated only
\* when one of the six fields differs.
C34_ManifestReconciled ==
  [][C34_Step]_vars

\* the feed_ids of the manifest the running syncFeeds fetched
ManifestFeedIds == {FeedId(fdActive.feeds[k]) : k \in 1..Len(fdActive.feeds)}
\* what C35 asks of one step of syncFeeds
C35_Step ==
  /\ FdCompletes =>
       \A i \in 1..Len(fdFeeds) :
         (/\ fdFeeds[i].network = FdNetwork
          /\ fdFeeds[i].feed_id \notin ManifestFeedIds
          /\ fdFeeds[i].status = "active") => fdFeeds'[i].status = "inactive"
  /\ fdPc = "entry" =>
       \A i \in 1..Len(fdFeeds) :
         (fdFeeds[i].status = "active" /\ fdFeeds'[i].status = "inactive")
           => fdFeeds[i].feed_id \notin ManifestFeedIds

\* C35: when a syncFeeds that did not skip returns, every stored feed of the
\* network that was active and whose feed_id the manifest does not list is
\* inactive, and the sync sets no stored feed inactive whose feed_id the
\* manifest lists.
C35_AbsentFeedsDeactivated ==
  [][C35_Step]_vars

\* C36: when a syncFeeds that did not skip returns and no call has failed, a
\* stored feed of the network is active if and only if the manifest lists
\* its feed_id; so a feed deactivated earlier that the manifest lists again
\* with the same fields is active.
C36_ActiveIffListed ==
  [][(FdCompletes /\ fdFaults' = 0) =>
       \A i \in 1..Len(fdFeeds') :
         fdFeeds'[i].network = FdNetwork =>
           (fdFeeds'[i].status = "active" <=> fdFeeds'[i].feed_id \in ManifestFeedIds)]_vars

\* the entry the loop of syncFeeds is at has no stored feed, or one whose
\* fields differ: the feed must be created or updated
FdMustWrite ==
  /\ FdInEntryLoop
  /\ \A i \in 1..Len(fdStored) :
       fdStored[i].feed_id = FeedId(fdActive.feeds[fdI])
         => ~SameSixFields(fdActive.feeds[fdI], fdStored[i])
\* the stored assets whose ticker is t ignoring case
AssetsOfTicker(t) ==
  {a \in 1..Len(fdAssets) : toLowerCase(fdAssets[a].ticker) = toLowerCase(t)}
\* the step writes the feed of the entry with asset a under the given field
FdWritesFeedWith(field, a) ==
  \E i \in 1..Len(fdFeeds') :
    /\ fdFeeds'[i].network = FdNetwork
    /\ fdFeeds'[i].feed_id = FeedId(fdActive.feeds[fdI])
    /\ fdFeeds'[i].status = "active"
    /\ SameSixFields(fdActive.feeds[fdI], fdFeeds'[i])
    /\ fdFeeds'[i][field] = fdAssets[a].id

\* C37: when a feed must be created or updated and no call fails, a stored
\* asset whose ticker is the base or quote ticker ignoring case is reused: no
\* asset is created for that ticker and the feed is written with that
\* asset; an asset is created only when no stored asset matches ignoring
\* case.
C37_AssetReusedIgnoringCase ==
  [][(FdMustWrite /\ fdFaults' = 0) =>
       LET label == fdActive.feeds[fdI].label
           created == {fdAssets'[j].ticker : j \in (Len(fdAssets) + 1)..Len(fdAssets')}
       IN /\ \A k \in 1..2 :
               AssetsOfTicker(label[k]) # {} =>
                 /\ \A t \in created : toLowerCase(t) # toLowerCase(label[k])
                 /\ \E a \in AssetsOfTicker(label[k]) :
                      FdWritesFeedWith(IF k = 1 THEN "base_asset" ELSE "quote_asset", a)
          /\ \A t \in created : AssetsOfTicker(t) = {}]_vars

(***************************************************************************)
(* Claims about the first-time population (SpecBackfill).                  *)
(***************************************************************************)
\* the starting_slot of the first policy in ascending order
FirstStartingSlot ==
  CHOOSE s \in {p.starting_slot : p \in Range(pbPolicies)} :
    \A p \in Range(pbPolicies) : s <= p.starting_slot
\* the windows asked for so far for a policy, in the order of the requests
WindowsOf(windows, policy) == SelectSeq(windows, LAMBDA w : w.policy = policy)
\* what C38 asks of one step of populateIndex
C38_Step ==
  /\ \A i \in 1..Len(pbWindows') :
       LET w == pbWindows'[i]
           day == w.created_after + (DayMs \div SlotLength)
       IN /\ w.created_before = IF day < w.latestSlot THEN day ELSE w.latestSlot
          /\ w.created_after < w.created_before
          /\ i > 1 => pbWindows'[i - 1].policy.starting_slot <= w.policy.starting_slot
          /\ IF i > 1 /\ pbWindows'[i - 1].policy = w.policy
             THEN w.created_after = pbWindows'[i - 1].created_before
             ELSE /\ w.created_after = FirstStartingSlot
                  /\ \A j \in 1..(i - 1) : pbWindows'[j].policy # w.policy
  /\ (pbPc = "while" /\ pbPc' = "policy") => pbCur = pbLatest
  /\ pbStored' # pbStored =>
       /\ pbPc = "update"
       /\ \A p \in Range(pbPolicies) :
            LET ws == WindowsOf(pbWindows, p)
            IN ws # <<>> /\ ws[Len(ws)].created_before = ws[Len(ws)].latestSlot
       /\ pbResp # <<>>
       /\ pbStored' = [last_checkpoint_slot |-> pbResp[1].lastCheckpointSlot,
                       last_block_hash |-> pbResp[1].lastBlockHash]

\* C38: populateIndex takes the policies in ascending starting_slot order and
\* for each asks for consecutive windows [c, min(c + one day of slots, latest)]
\* from c = the first policy's starting_slot, each window starting where the
\* one before ended and c growing, until c = latest; the checkpoint of the
\* network is written only after the windows of all policies, with the block
\* hash and checkpoint slot of the last response.
C38_BackfillWindows ==
  [][C38_Step]_vars
C38_Witness ==
  /\ pbPc = "done"
  /\ Len(pbPolicies) = 2
  /\ pbStored.last_checkpoint_slot # 0
  /\ \E i \in 1..(Len(pbWindows) - 1) : pbWindows[i].policy = pbWindows[i + 1].policy
  /\ \E i, j \in 1..Len(pbWindows) : pbWindows[i].latestSlot # pbWindows[j].latestSlot

(***************************************************************************)
(* Claims about the first policies of a network (SpecPopulate).            *)
(***************************************************************************)
\* the places of the pointer matches that are the first of their policy ID
\* and whose policy ID is not ignored
FirstOccurrences ==
  {k \in 1..Len(ppMatches) :
     /\ ppMatches[k].datum \notin ppIgnore
     /\ \A j \in 1..(k - 1) : ppMatches[j].datum # ppMatches[k].datum}
\* a policy record without its id
PolicyFields(p) ==
  [policy_id |-> p.policy_id, starting_slot |-> p.starting_slot,
   starting_block_hash |-> p.starting_block_hash]
\* populatePolicyIDs has returned and no createPolicy call is under way
PpSettled == ppPc = "returned" /\ ppPending = {}

\* C39: after the first-time population of a network the stored policies
\* are exactly the policy IDs of the oldest-first pointer matches, each once
\* with the slot and block hash of its first match, without the IDs of
\* ignore_policies, and the result is in the order of starting_slot.
C39_PersistedPolicies ==
  PpSettled =>
    /\ {PolicyFields(ppStore[i]) : i \in 1..Len(ppStore)} =
         {[policy_id |-> ppMatches[k].datum,
           starting_slot |-> ppMatches[k].created_at.slot_no,
           starting_block_hash |-> ppMatches[k].created_at.header_hash] :
            k \in FirstOccurrences}
    /\ Len(ppStore) = Cardinality(FirstOccurrences)
    /\ Range(ppResult) = Range(ppStore)
    /\ \A i, j \in 1..Len(ppResult) :
         i < j => ppResult[i].starting_slot < ppResult[j].starting_slot

====
